---- MODULE Spec2Model ----
(***************************************************************************)
(* Taste-intelligence core of ceezaa-pilot: the incremental aggregation    *)
(* engine (AggregationEngine.ingest over UserAnalysis), the fusion engine  *)
(* (TasteFusion.fuse) and the full recompute of PlaidService.              *)
(*                                                                         *)
(* Python dicts are functions whose DOMAIN is the set of keys present,     *)
(* lists are sequences, sets are sets.  None is NoneStr for string-valued  *)
(* fields and NoneInt for dates and timestamps.  A datetime is a tick      *)
(* count, TicksPerDay ticks to the calendar day, so datetime.date() is     *)
(* integer division.  Decimal amounts are integers (cents).  Floats that   *)
(* the code computes from integer counts are exact rationals scaled by     *)
(* Scale (1000), which the code's float results agree with on the ranges   *)
(* explored here.                                                          *)
(***************************************************************************)
EXTENDS Integers, Sequences, FiniteSets, Bags, TLC

VARIABLES
    analysis,             \* the UserAnalysis being mutated / read
    top_merchants_limit,  \* AggregationEngine.top_merchants_limit
    log,                  \* history: the transactions ingested so far, in order
    prevAnalysis,         \* history: the UserAnalysis before the last ingest
    declared,             \* DeclaredTaste handed to fuse
    max_tx_weight,        \* TasteFusion.max_tx_weight, scaled by Scale
    fused,                \* result of the last fuse call, NoResult before
    dbTransactions,       \* rows of the transactions table of the user
    dbUserAnalysis,       \* the user_analysis row of the user, NoRow if none
    recomputes,           \* history: the outcome of each full recompute, in order
    dbPlaceVisits,        \* rows of the place_visits table of the user
    syncs,                \* history: the sync results processed so far, in order
    user_taste,           \* the user taste dict handed to the MatchingEngine
    venues,               \* the venue dicts handed to the MatchingEngine
    match,                \* result of the last MatchingEngine call, NoResult before
    dbSessions,           \* sessions table: id -> row
    dbParticipants,       \* session_participants table: a bag of rows
    dbInvitations,        \* session_invitations table: id -> row
    dbVotes,              \* session_votes table: <<session_id, user_id>> -> venue_id
    response,             \* the response to a respond_to_invitation request served last
    dbBefore,             \* history: that request and the tables before it
    pendingExits,         \* history: invitation id -> times it left "pending"
    inflight              \* the requests being served step by step, each at its position

tasteVars == <<analysis, top_merchants_limit, log, prevAnalysis,
               declared, max_tx_weight, fused, dbTransactions, dbUserAnalysis,
               recomputes, dbPlaceVisits, syncs>>

matchVars == <<user_taste, venues, match>>

sessionVars == <<dbSessions, dbParticipants, dbInvitations, dbVotes, response,
                 dbBefore, pendingExits, inflight>>

vars == <<tasteVars, matchVars, sessionVars>>

-----------------------------------------------------------------------------
(* Bounds of the exploration *)

MaxTxns == 3          \* ingests per behaviour, general transactions
MaxStreakTxns == 3    \* ingests per behaviour, dated transactions
MaxVisitTxns == 5     \* ingests per behaviour, merchant visits
MaxLimit == 2         \* configured top_merchants_limit ranges over 1..MaxLimit
MaxTick == 7          \* timestamps of dated transactions range over 0..MaxTick
TicksPerDay == 2      \* ticks of the clock per calendar day
MaxRecomputes == 3    \* full recomputes per behaviour
MaxCount == 101       \* transactions of the first category of a stored aggregate
MaxOtherCount == 3    \* transactions of each further category
MaxCategories == 18   \* categories of a stored aggregate with one transaction each
MaxPermutedKeys == 3  \* dicts of more keys are iterated in one order only
MaxVenues == 2        \* venues handed to one call of the MatchingEngine
MaxTopLimit == 3      \* top_merchants_limit ranges over 1..MaxTopLimit for the top list
MaxTopTxns == 5       \* ingests per behaviour, transactions competing for the top list

-----------------------------------------------------------------------------
(* Values *)

NoneStr == "None"
NoneInt == -1
NoResult == [status |-> "none"]
NoRow == [present |-> FALSE]

EmptyDict == [k \in {} |-> 0]

Get(d, k, default) == IF k \in DOMAIN d THEN d[k] ELSE default

Put(d, k, v) == [x \in (DOMAIN d) \cup {k} |-> IF x = k THEN v ELSE d[x]]

Truthy(s) == s # NoneStr /\ s # ""

Max2(a, b) == IF a >= b THEN a ELSE b

Min2(a, b) == IF a <= b THEN a ELSE b

\* datetime.date()
DateOf(ts) == ts \div TicksPerDay

-----------------------------------------------------------------------------
(* aggregation_engine.py: the dataclasses *)

CategoryStats == [count |-> 0, total_spend |-> 0, merchants |-> {}]

StreakData == [current |-> 0, longest |-> 0, last_date |-> NoneInt]

ExplorationData == [unique |-> 0, total |-> 0, seen_merchants |-> {}]

\* the fields of the dataclass; it declares no cuisines and no top_cuisines
UserAnalysis ==
    [categories |-> EmptyDict,
     time_buckets |-> EmptyDict,
     day_types |-> EmptyDict,
     merchant_visits |-> EmptyDict,
     top_merchants |-> <<>>,
     streaks |-> EmptyDict,
     exploration |-> EmptyDict,
     total_transactions |-> 0,
     first_transaction_at |-> NoneInt,
     last_transaction_at |-> NoneInt,
     version |-> 0]

\* merchant_key = txn.merchant_id or txn.merchant_name
MerchantKey(txn) ==
    IF Truthy(txn.merchant_id) THEN txn.merchant_id ELSE txn.merchant_name

-----------------------------------------------------------------------------
(* AggregationEngine: the sub-updates of ingest *)


\* slip: the spend is overwritten by the last amount instead of accumulated
StatsAfter_Overwrite(stats, txn) ==
    [count |-> stats.count + 1,
     total_spend |-> txn.amount,
     merchants |-> IF Truthy(MerchantKey(txn))
                   THEN stats.merchants \cup {MerchantKey(txn)}
                   ELSE stats.merchants]

StatsAfter(stats, txn) ==
    [count |-> stats.count + 1,
     total_spend |-> stats.total_spend + txn.amount,
     merchants |-> IF Truthy(MerchantKey(txn))
                   THEN stats.merchants \cup {MerchantKey(txn)}
                   ELSE stats.merchants]

_update_category(txn, a) ==
    LET category == txn.taste_category
        stats == Get(a.categories, category, CategoryStats)
    IN  [a EXCEPT !.categories = Put(a.categories, category, StatsAfter(stats, txn))]

_update_time_bucket(txn, a) ==
    [a EXCEPT !.time_buckets =
        Put(a.time_buckets, txn.time_bucket, Get(a.time_buckets, txn.time_bucket, 0) + 1)]


\* slip: the dict is rebuilt with the current key only
_update_day_type_Forget(txn, a) ==
    [a EXCEPT !.day_types =
        Put(EmptyDict, txn.day_type, Get(a.day_types, txn.day_type, 0) + 1)]

_update_day_type(txn, a) ==
    [a EXCEPT !.day_types =
        Put(a.day_types, txn.day_type, Get(a.day_types, txn.day_type, 0) + 1)]

\* list.sort(key=count, reverse=True): stable, equal counts keep their order
RECURSIVE SortByCountDesc(_)
InsertByCountDesc(sorted, m) ==
    LET ahead == {i \in DOMAIN sorted : sorted[i].count >= m.count}
        k == Cardinality(ahead)
    IN  SubSeq(sorted, 1, k) \o <<m>> \o SubSeq(sorted, k + 1, Len(sorted))

SortByCountDesc(list) ==
    IF list = <<>> THEN <<>>
    ELSE InsertByCountDesc(SortByCountDesc(SubSeq(list, 1, Len(list) - 1)),
                           list[Len(list)])

MinCount(list) ==
    CHOOSE n \in {list[i].count : i \in DOMAIN list} :
        \A i \in DOMAIN list : n <= list[i].count

\* min(range(len(list)), key=count): the first index holding the minimum
MinIdx(list) ==
    CHOOSE i \in DOMAIN list :
        /\ list[i].count = MinCount(list)
        /\ \A j \in 1..(i - 1) : list[j].count # MinCount(list)

RemoveAt(list, i) == SubSeq(list, 1, i - 1) \o SubSeq(list, i + 1, Len(list))

\* the list comprehension of lines 305-310
KeepAboveMinOrLast(list, min_count) ==
    LET Keep(m) == m.count > min_count \/ m = list[Len(list)]
    IN  SelectSeq(list, Keep)

TopEntry(merchant_key, merchant_name, count) ==
    [merchant_id |-> merchant_key, merchant_name |-> merchant_name, count |-> count]


\* slip: the new entry is appended without evicting the lowest one
ReplaceLowest_NoEvict(list, entry, limit) == Append(list, entry)

ReplaceLowest(list, entry, limit) ==
    LET kept == KeepAboveMinOrLast(list, MinCount(list))
        room == IF Len(kept) >= limit THEN RemoveAt(kept, MinIdx(kept)) ELSE kept
    IN  Append(room, entry)

_rebuild_top_merchants(a, merchant_key, merchant_name, limit) ==
    LET current_count == a.merchant_visits[merchant_key]
        top == a.top_merchants
        found == {i \in DOMAIN top : top[i].merchant_id = merchant_key}
        entry == TopEntry(merchant_key, merchant_name, current_count)
        updated ==
            IF found # {}
            THEN LET existing_idx == CHOOSE i \in found : \A j \in found : i <= j
                 IN  [top EXCEPT ![existing_idx].count = current_count]
            ELSE IF Len(top) < limit
                 THEN Append(top, entry)
                 ELSE IF current_count > MinCount(top)
                      THEN ReplaceLowest(top, entry, limit)
                      ELSE top
    IN  [a EXCEPT !.top_merchants = SortByCountDesc(updated)]


\* slip: the guard on a missing merchant key is dropped
_update_merchant_visits_NoGuard(txn, a, limit) ==
    LET merchant_key == MerchantKey(txn)
    IN  _rebuild_top_merchants(
            [a EXCEPT !.merchant_visits =
                Put(a.merchant_visits, merchant_key,
                    Get(a.merchant_visits, merchant_key, 0) + 1)],
            merchant_key, txn.merchant_name, limit)

_update_merchant_visits(txn, a, limit) ==
    LET merchant_key == MerchantKey(txn)
    IN  IF ~Truthy(merchant_key) THEN a
        ELSE _rebuild_top_merchants(
                 [a EXCEPT !.merchant_visits =
                     Put(a.merchant_visits, merchant_key,
                         Get(a.merchant_visits, merchant_key, 0) + 1)],
                 merchant_key, txn.merchant_name, limit)

\* slip: every transaction with a merchant key counts as a new merchant
_update_exploration_CountAll(txn, a) ==
    LET category == txn.taste_category
        merchant_key == MerchantKey(txn)
        exp == Get(a.exploration, category, ExplorationData)
        after == [unique |-> exp.unique + 1,
                  total |-> exp.total + 1,
                  seen_merchants |-> exp.seen_merchants \cup {merchant_key}]
    IN  IF ~Truthy(merchant_key) THEN a
        ELSE [a EXCEPT !.exploration = Put(a.exploration, category, after)]

_update_exploration(txn, a) ==
    LET category == txn.taste_category
        merchant_key == MerchantKey(txn)
        exp == Get(a.exploration, category, ExplorationData)
        isNew == merchant_key \notin exp.seen_merchants
        after == [unique |-> IF isNew THEN exp.unique + 1 ELSE exp.unique,
                  total |-> exp.total + 1,
                  seen_merchants |-> exp.seen_merchants \cup {merchant_key}]
    IN  IF ~Truthy(merchant_key) THEN a
        ELSE [a EXCEPT !.exploration = Put(a.exploration, category, after)]


\* slip: a gap resets the longest streak together with the current one
\* slip: a second transaction on the same day extends the current streak
StreakAfter_SameDayCounts(streak, txn_date) ==
    IF streak.last_date = NoneInt
    THEN [current |-> 1, longest |-> 1, last_date |-> txn_date]
    ELSE LET days_diff == txn_date - streak.last_date
         IN  IF days_diff = 0 \/ days_diff = 1
             THEN [current |-> streak.current + 1,
                   longest |-> Max2(streak.longest, streak.current + 1),
                   last_date |-> txn_date]
             ELSE [streak EXCEPT !.current = 1, !.last_date = txn_date]

StreakAfter_ResetLongest(streak, txn_date) ==
    IF streak.last_date = NoneInt
    THEN [current |-> 1, longest |-> 1, last_date |-> txn_date]
    ELSE LET days_diff == txn_date - streak.last_date
         IN  IF days_diff = 0 THEN streak
             ELSE IF days_diff = 1
                  THEN [current |-> streak.current + 1,
                        longest |-> Max2(streak.longest, streak.current + 1),
                        last_date |-> txn_date]
                  ELSE [current |-> 1, longest |-> 1, last_date |-> txn_date]

\* slip: a consecutive day extends the current streak but not the longest
StreakAfter_StaleLongest(streak, txn_date) ==
    IF streak.last_date = NoneInt
    THEN [current |-> 1, longest |-> 1, last_date |-> txn_date]
    ELSE LET days_diff == txn_date - streak.last_date
         IN  IF days_diff = 0 THEN streak
             ELSE IF days_diff = 1
                  THEN [streak EXCEPT !.current = streak.current + 1,
                                      !.last_date = txn_date]
                  ELSE [streak EXCEPT !.current = 1, !.last_date = txn_date]

StreakAfter(streak, txn_date) ==
    IF streak.last_date = NoneInt
    THEN [current |-> 1, longest |-> 1, last_date |-> txn_date]
    ELSE LET days_diff == txn_date - streak.last_date
         IN  IF days_diff = 0 THEN streak
             ELSE IF days_diff = 1
                  THEN [current |-> streak.current + 1,
                        longest |-> Max2(streak.longest, streak.current + 1),
                        last_date |-> txn_date]
                  ELSE [streak EXCEPT !.current = 1, !.last_date = txn_date]

_update_streaks(txn, a) ==
    LET category == txn.taste_category
        streak == Get(a.streaks, category, StreakData)
    IN  [a EXCEPT !.streaks = Put(a.streaks, category, StreakAfter(streak, DateOf(txn.timestamp)))]

_update_metadata(txn, a) ==
    [a EXCEPT !.total_transactions = a.total_transactions + 1,
              !.first_transaction_at =
                  IF a.first_transaction_at = NoneInt THEN txn.timestamp
                  ELSE a.first_transaction_at,
              !.last_transaction_at = txn.timestamp]

\* AggregationEngine.ingest
ingest(txn, a, limit) ==
    _update_metadata(txn,
      _update_streaks(txn,
        _update_exploration(txn,
          _update_merchant_visits(txn,
            _update_day_type(txn,
              _update_time_bucket(txn,
                _update_category(txn, a))), limit))))

-----------------------------------------------------------------------------
(* Transactions handed to ingest *)

Txn(category, ident, amount, ts, bucket, day, cuisine) ==
    [taste_category |-> category,
     merchant_id |-> ident[1],
     merchant_name |-> ident[2],
     amount |-> amount,
     timestamp |-> ts,
     time_bucket |-> bucket,
     day_type |-> day,
     \* the cuisine keyword of the callers; ProcessedTransaction declares no
     \* such field, so no code of the engine can read it
     cuisine |-> cuisine]

\* "mystery" is not a category the mappings know
Categories == {"coffee", "mystery"}

\* <<merchant_id, merchant_name>>: no key at all, an id, a name only
NoMerchant == <<NoneStr, "">>
Merchants == {NoMerchant, <<"m1", "Cafe">>, <<NoneStr, "Deli">>}

\* <<timestamp, time_bucket, day_type, amount, cuisine>>
Visits ==
    {<<1, "morning", "weekday", 2, NoneStr>>,
     <<4, "evening", "weekend", 5, "sushi">>}

Txns ==
    {Txn(c, m, w[4], w[1], w[2], w[3], w[5]) :
        c \in Categories, m \in Merchants, w \in Visits}

DatedTxns ==
    {Txn(c, <<"m1", "Cafe">>, 5, ts, "morning", "weekday", NoneStr) :
        c \in Categories, ts \in 0..MaxTick}

VisitTxns ==
    {Txn("coffee", m, 5, 1, "morning", "weekday", NoneStr) :
        m \in {NoMerchant, <<"m1", "Cafe">>, <<"m2", "Bar">>, <<NoneStr, "Deli">>}}

-----------------------------------------------------------------------------
(* Ingestion *)

\* no call of the MatchingEngine made or pending
InitMatchIdle ==
    /\ user_taste = EmptyDict
    /\ venues = <<>>
    /\ match = NoResult

\* empty tables of the sessions router
InitSessionsIdle ==
    /\ dbSessions = EmptyDict
    /\ dbParticipants = <<>>
    /\ dbInvitations = EmptyDict
    /\ dbVotes = EmptyDict
    /\ response = NoResult
    /\ dbBefore = NoResult
    /\ pendingExits = EmptyDict
    /\ inflight = {}

InitIdle ==
    /\ InitMatchIdle
    /\ InitSessionsIdle
    /\ declared = [vibe_preferences |-> <<>>]
    /\ max_tx_weight = 700
    /\ fused = NoResult
    /\ dbTransactions = EmptyDict
    /\ dbUserAnalysis = NoRow
    /\ recomputes = <<>>
    /\ dbPlaceVisits = {}
    /\ syncs = <<>>

InitIngest ==
    /\ analysis = UserAnalysis
    /\ top_merchants_limit \in 1..MaxLimit
    /\ log = <<>>
    /\ prevAnalysis = UserAnalysis
    /\ InitIdle

DoIngest(txn) ==
    /\ analysis' = ingest(txn, analysis, top_merchants_limit)
    /\ log' = Append(log, txn)
    /\ prevAnalysis' = analysis
    /\ UNCHANGED <<top_merchants_limit, declared, max_tx_weight, fused,
                   dbTransactions, dbUserAnalysis, recomputes,
                   dbPlaceVisits, syncs>>
    /\ UNCHANGED <<matchVars, sessionVars>>

Ingest ==
    /\ analysis.total_transactions < MaxTxns
    /\ \E txn \in Txns : DoIngest(txn)

IngestDated ==
    /\ analysis.total_transactions < MaxStreakTxns
    /\ \E txn \in DatedTxns : DoIngest(txn)

IngestVisit ==
    /\ analysis.total_transactions < MaxVisitTxns
    /\ \E txn \in VisitTxns : DoIngest(txn)

Next == Ingest

Spec == InitIngest /\ [][Next]_vars

NextStreak == IngestDated

SpecStreak == InitIngest /\ [][NextStreak]_vars

NextVisit == IngestVisit

SpecVisit == InitIngest /\ [][NextVisit]_vars

-----------------------------------------------------------------------------
(* UserAnalysis.to_dict *)

CategoryStatsDict(stats) ==
    [count |-> stats.count, total_spend |-> stats.total_spend, merchants |-> stats.merchants]

ExplorationDict(exp) == [unique |-> exp.unique, total |-> exp.total]

to_dict(a) ==
    [categories |-> [k \in DOMAIN a.categories |-> CategoryStatsDict(a.categories[k])],
     time_buckets |-> a.time_buckets,
     day_types |-> a.day_types,
     merchant_visits |-> a.merchant_visits,
     top_merchants |-> a.top_merchants,
     streaks |-> a.streaks,
     exploration |-> [k \in DOMAIN a.exploration |-> ExplorationDict(a.exploration[k])],
     total_transactions |-> a.total_transactions,
     first_transaction_at |-> a.first_transaction_at,
     last_transaction_at |-> a.last_transaction_at,
     version |-> a.version]

-----------------------------------------------------------------------------
(* PlaidService: the transactions table and the full recompute *)

DefaultTopMerchantsLimit == 10

TxnIds == {"t1", "t2", "t3"}

\* a row of the transactions table as _store_transactions writes it
DbRow(id, amount, day, hasDatetime, merchant_name, merchant_id, category, bucket) ==
    [plaid_transaction_id |-> id,
     amount |-> amount,
     date |-> day,
     datetime |-> IF hasDatetime THEN day * TicksPerDay + 1 ELSE NoneInt,
     merchant_name |-> merchant_name,
     merchant_id |-> merchant_id,
     taste_category |-> category,
     cuisine |-> NoneStr,
     time_bucket |-> bucket,
     day_type |-> "weekday"]

DbRows ==
    {DbRow(id, -5, 0, FALSE, "Cafe", "m1", "coffee", "unknown") : id \in TxnIds}
    \cup {DbRow(id, 2, 1, TRUE, "", NoneStr, "other", "morning") : id \in TxnIds}

Abs(x) == IF x < 0 THEN -x ELSE x

Or(s, fallback) == IF Truthy(s) THEN s ELSE fallback

\* the conversion of a stored row to a ProcessedTransaction
ToProcessed(tx) ==
    [taste_category |-> Or(tx.taste_category, "other"),
     merchant_id |-> tx.merchant_id,
     merchant_name |-> Or(tx.merchant_name, "Unknown"),
     amount |-> Abs(tx.amount),
     timestamp |-> IF tx.datetime # NoneInt THEN tx.datetime
                   ELSE tx.date * TicksPerDay + (TicksPerDay \div 2),
     time_bucket |-> Or(tx.time_bucket, "unknown"),
     day_type |-> Or(tx.day_type, "unknown"),
     cuisine |-> tx.cuisine]

RECURSIVE IngestAll(_, _)
IngestAll(txns, limit) ==
    IF txns = <<>> THEN UserAnalysis
    ELSE ingest(txns[Len(txns)], IngestAll(SubSeq(txns, 1, Len(txns) - 1), limit), limit)

\* .order("date", desc=False): any order of the rows with non-decreasing
\* dates; the order of rows of the same date is the database's choice
DateOrders(table) ==
    {order \in [1..Cardinality(DOMAIN table) -> DOMAIN table] :
        /\ \A i, j \in DOMAIN order : i # j => order[i] # order[j]
        /\ \A i, j \in DOMAIN order : i < j => table[order[i]].date <= table[order[j]].date}

\* the keys of analysis_dict that the upsert payload subscripts
PayloadKeys ==
    {"categories", "time_buckets", "day_types", "merchant_visits", "top_merchants",
     "cuisines", "top_cuisines", "streaks", "exploration", "total_transactions",
     "first_transaction_at", "last_transaction_at", "version"}

\* the record upserted into user_analysis, "version": analysis_dict["version"] + 1
UpsertPayload(analysis_dict) ==
    [analysis_dict EXCEPT !.version = analysis_dict.version + 1]

\* the outcome of one call: the exception it raised and the version it stored
Recompute(error, version) == [error |-> error, version |-> version]

InitRecompute ==
    /\ analysis = UserAnalysis
    /\ top_merchants_limit = DefaultTopMerchantsLimit
    /\ log = <<>>
    /\ prevAnalysis = UserAnalysis
    /\ declared = [vibe_preferences |-> <<>>]
    /\ max_tx_weight = 700
    /\ fused = NoResult
    /\ dbTransactions = EmptyDict
    /\ dbUserAnalysis = NoRow
    /\ recomputes = <<>>
    /\ dbPlaceVisits = {}
    /\ syncs = <<>>
    /\ InitMatchIdle
    /\ InitSessionsIdle

\* the upsert of _store_transactions, one row per call
StoreTransactions ==
    \E row \in DbRows :
        /\ dbTransactions' = Put(dbTransactions, row.plaid_transaction_id, row)
        /\ UNCHANGED <<analysis, top_merchants_limit, log, prevAnalysis, declared,
                       max_tx_weight, fused, dbUserAnalysis, recomputes,
                   dbPlaceVisits, syncs>>
        /\ UNCHANGED <<matchVars, sessionVars>>

\* PlaidService.aggregate_transactions over the rows of the transactions table
AggregateOver(table) ==
    IF DOMAIN table = {}
    THEN UNCHANGED <<analysis, log, prevAnalysis, dbUserAnalysis, recomputes>>
    ELSE \E order \in DateOrders(table) :
           LET txns == [i \in DOMAIN order |-> ToProcessed(table[order[i]])]
               result == IngestAll(txns, DefaultTopMerchantsLimit)
               analysis_dict == to_dict(result)
           IN  /\ analysis' = result
               /\ log' = txns
               /\ prevAnalysis' = IngestAll(SubSeq(txns, 1, Len(txns) - 1),
                                            DefaultTopMerchantsLimit)
               /\ IF PayloadKeys \subseteq DOMAIN analysis_dict
                  THEN LET payload == UpsertPayload(analysis_dict)
                       IN  /\ dbUserAnalysis' = [present |-> TRUE] @@ payload
                           /\ recomputes' = Append(recomputes,
                                                   Recompute("none", payload.version))
                  ELSE \* analysis_dict["cuisines"] raises before the upsert
                       /\ dbUserAnalysis' = dbUserAnalysis
                       /\ recomputes' = Append(recomputes,
                                               Recompute("KeyError", NoneInt))

AggregateTransactions ==
    /\ Len(recomputes) < MaxRecomputes
    /\ AggregateOver(dbTransactions)
    /\ UNCHANGED <<top_merchants_limit, declared, max_tx_weight, fused,
                   dbTransactions, dbPlaceVisits, syncs>>
    /\ UNCHANGED <<matchVars, sessionVars>>

NextRecompute == StoreTransactions \/ AggregateTransactions

SpecRecompute == InitRecompute /\ [][NextRecompute]_vars

(* C6: the persisted version is monotonically increasing: each full
   recompute stores a version strictly greater than the version stored by
   the previous recompute of the user. *)
C6_VersionStrictlyIncreasing ==
    \A i \in DOMAIN recomputes :
        /\ recomputes[i].error = "none"
        /\ i > 1 => recomputes[i - 1].version < recomputes[i].version

-----------------------------------------------------------------------------
(* taste_fusion.py.  Weights, confidence and the default max_tx_weight are
   floats in [0, 1]; they are carried as integers scaled by Scale. *)

Scale == 1000

DefaultMaxTxWeight == 700

CATEGORY_COLORS ==
    [coffee |-> "#8B4513", dining |-> "#D4AF37", nightlife |-> "#4B0082",
     entertainment |-> "#FF6347", fitness |-> "#32CD32", shopping |-> "#FF69B4",
     groceries |-> "#228B22", fast_food |-> "#FF8C00", travel |-> "#4169E1",
     other |-> "#808080"]

\* name.replace("_", " ").title(), on the category names used here
format_category_name(name) ==
    CASE name = "coffee" -> "Coffee"
      [] name = "fast_food" -> "Fast Food"
      [] name = "mystery" -> "Mystery"
      [] name = "dining" -> "Dining"
      [] name = "nightlife" -> "Nightlife"
      [] name = "entertainment" -> "Entertainment"
      [] name = "fitness" -> "Fitness"
      [] name = "shopping" -> "Shopping"
      [] name = "groceries" -> "Groceries"
      [] name = "travel" -> "Travel"
      [] name = "other" -> "Other"
      [] name = "other_food" -> "Other Food"
      [] name = "bakery" -> "Bakery"
      [] name = "dessert" -> "Dessert"
      [] name = "bar" -> "Bar"
      [] name = "brunch" -> "Brunch"
      [] name = "tea" -> "Tea"
      [] name = "juice" -> "Juice"
      [] name = "deli" -> "Deli"
      [] name = "market" -> "Market"

\* slip: the weight is not capped at max_tx_weight
_calculate_weights_NoCap(transaction_count, max) ==
    IF transaction_count = 0 THEN <<0, Scale>>
    ELSE <<(transaction_count * Scale) \div 50,
           Scale - (transaction_count * Scale) \div 50>>

\* TasteFusion._calculate_weights: <<tx_weight, quiz_weight>>;
\* transaction_count / 50 is an exact multiple of 1/Scale
_calculate_weights(transaction_count, max) ==
    IF transaction_count = 0 THEN <<0, Scale>>
    ELSE LET tx_weight == Min2((transaction_count * Scale) \div 50, max)
         IN  <<tx_weight, Scale - tx_weight>>

\* slip: no saturation at 100 transactions
_calculate_confidence_NoCap(transaction_count) ==
    IF transaction_count = 0 THEN 0
    ELSE Scale \div 10 + (transaction_count * 9 * Scale) \div 1000

\* TasteFusion._calculate_confidence: 0.1 + (n / 100) * 0.9 is an exact
\* multiple of 1/Scale
_calculate_confidence(transaction_count) ==
    IF transaction_count = 0 THEN 0
    ELSE IF transaction_count >= 100 THEN Scale
    ELSE Scale \div 10 + (transaction_count * 9 * Scale) \div 1000

\* TasteFusion._calculate_exploration_ratio: the quotient as a fraction
_calculate_exploration_ratio(observed) ==
    IF observed.total_transactions = 0 THEN [num |-> 0, den |-> 1]
    ELSE [num |-> Cardinality(DOMAIN observed.merchant_visits),
          den |-> observed.total_transactions]

\* count/total pairs for which the double (count / total) * 100 falls just
\* below a half that the exact quotient reaches (57.49999999999999)
FloatBelowHalf == {<<23, 40>>, <<46, 80>>, <<69, 120>>}

\* round((count / total_count) * 100): Python rounds halves to even
RoundPercentage(count, total_count) ==
    LET q == (100 * count) \div total_count
        r == (100 * count) % total_count
    IN  IF 2 * r < total_count THEN q
        ELSE IF 2 * r > total_count THEN q + 1
        ELSE IF <<count, total_count>> \in FloatBelowHalf THEN q
        ELSE IF q % 2 = 0 THEN q ELSE q + 1

CategoryScore(cat_name, cat_stats, total_count) ==
    [name |-> format_category_name(cat_name),
     percentage |-> RoundPercentage(cat_stats.count, total_count),
     color |-> Get(CATEGORY_COLORS, cat_name, CATEGORY_COLORS["other"]),
     count |-> cat_stats.count,
     total_spend |-> cat_stats.total_spend]

\* scores.sort(key=percentage, reverse=True): stable
RECURSIVE SortByPercentageDesc(_)
InsertByPercentageDesc(sorted, s) ==
    LET k == Cardinality({i \in DOMAIN sorted : sorted[i].percentage >= s.percentage})
    IN  SubSeq(sorted, 1, k) \o <<s>> \o SubSeq(sorted, k + 1, Len(sorted))

SortByPercentageDesc(scores) ==
    IF scores = <<>> THEN <<>>
    ELSE InsertByPercentageDesc(SortByPercentageDesc(SubSeq(scores, 1, Len(scores) - 1)),
                                scores[Len(scores)])

RECURSIVE SumPercentage(_)
SumPercentage(scores) ==
    IF scores = <<>> THEN 0
    ELSE Head(scores).percentage + SumPercentage(Tail(scores))

\* slip: the rounding remainder is not given to the first bucket
AdjustToHundred_Skip(scores) == scores

\* lines 228-232: the first bucket absorbs the rounding remainder
AdjustToHundred(scores) ==
    LET total_pct == SumPercentage(scores)
    IN  IF scores # <<>> /\ total_pct # 100
        THEN [scores EXCEPT ![1].percentage = scores[1].percentage + (100 - total_pct)]
        ELSE scores

\* TasteFusion._build_category_scores; order is the iteration order of the
\* categories dict
_build_category_scores(observed, order) ==
    IF observed.total_transactions = 0 \/ DOMAIN observed.categories = {} THEN <<>>
    ELSE AdjustToHundred(SortByPercentageDesc(
             [i \in DOMAIN order |->
                 CategoryScore(order[i], observed.categories[order[i]],
                               observed.total_transactions)]))

\* the outcome of a call that raised
Raised(exception) == [status |-> exception]

\* TasteFusion.fuse; observed.top_cuisines raises AttributeError on an
\* object that has no such attribute
fuse(decl, observed, max, order) ==
    IF "top_cuisines" \notin DOMAIN observed THEN Raised("AttributeError")
    ELSE
    [status |-> "ok",
     categories |-> _build_category_scores(observed, order),
     vibes |-> decl.vibe_preferences,
     top_cuisines |-> observed.top_cuisines,
     exploration_ratio |-> _calculate_exploration_ratio(observed),
     confidence |-> _calculate_confidence(observed.total_transactions),
     quiz_weight |-> _calculate_weights(observed.total_transactions, max)[2],
     tx_weight |-> _calculate_weights(observed.total_transactions, max)[1],
     mismatches |-> <<>>]

\* the iteration orders a dict with these keys can have
DictOrders(d) ==
    {order \in [1..Cardinality(DOMAIN d) -> DOMAIN d] :
        \A i, j \in DOMAIN order : i # j => order[i] # order[j]}

\* taste categories in the order a dict of many of them is iterated
ManyCategories ==
    <<"coffee", "fast_food", "mystery", "dining", "nightlife", "entertainment",
      "fitness", "shopping", "groceries", "travel", "other", "other_food",
      "bakery", "dessert", "bar", "brunch", "tea", "juice", "deli", "market">>

\* the iteration orders explored for the categories dict
IterationOrders(d) ==
    IF Cardinality(DOMAIN d) <= MaxPermutedKeys THEN DictOrders(d)
    ELSE {SelectSeq(ManyCategories, LAMBDA c : c \in DOMAIN d)}

-----------------------------------------------------------------------------
(* The observed side as get_fused_taste rebuilds it from the stored
   user_analysis row: total_transactions, categories, merchant_visits and
   the cuisines and top_cuisines attributes that the router sets on the
   object, everything else as constructed. *)

FuseCategories == <<"coffee", "fast_food", "mystery">>

CountMaps ==
    {counts \in [1..3 -> 0..MaxCount] :
        counts[2] <= MaxOtherCount /\ counts[3] <= MaxOtherCount}

\* <<merchant_visits, cuisines, top_cuisines>> of the stored row
Evidence ==
    {<<EmptyDict, EmptyDict, <<>>>>,
     <<[k \in {"m1"} |-> 1], [k \in {"sushi"} |-> 1], <<"sushi">>>>,
     <<[k \in {"m1", "Deli"} |-> 1], [k \in {"sushi", "thai"} |-> 1], <<"sushi", "thai">>>>}

Observed(counts, evidence) ==
    [UserAnalysis EXCEPT
        !.total_transactions = counts[1] + counts[2] + counts[3],
        !.categories =
            [c \in {FuseCategories[i] : i \in {i \in 1..3 : counts[i] > 0}} |->
                LET i == CHOOSE i \in 1..3 : FuseCategories[i] = c
                IN  [count |-> counts[i], total_spend |-> 5 * counts[i], merchants |-> {}]],
        !.merchant_visits = evidence[1]]
    @@ [cuisines |-> evidence[2], top_cuisines |-> evidence[3]]

\* a stored row of k categories with one transaction each
ObservedEven(k, evidence) ==
    [UserAnalysis EXCEPT
        !.total_transactions = k,
        !.categories =
            [c \in {ManyCategories[i] : i \in 1..k} |->
                [count |-> 1, total_spend |-> 5, merchants |-> {}]],
        !.merchant_visits = evidence[1]]
    @@ [cuisines |-> evidence[2], top_cuisines |-> evidence[3]]

MaxTxWeights == {0, DefaultMaxTxWeight, 990}

DeclaredTastes == {[vibe_preferences |-> <<>>], [vibe_preferences |-> <<"chill", "social">>]}

InitFuse ==
    /\ \/ \E counts \in CountMaps, evidence \in Evidence :
             /\ Cardinality(DOMAIN evidence[1]) <= counts[1] + counts[2] + counts[3]
             /\ analysis = Observed(counts, evidence)
       \/ \E k \in (MaxPermutedKeys + 1)..MaxCategories, evidence \in Evidence :
             analysis = ObservedEven(k, evidence)
    /\ declared \in DeclaredTastes
    /\ max_tx_weight \in MaxTxWeights
    /\ fused = NoResult
    /\ top_merchants_limit = DefaultTopMerchantsLimit
    /\ log = <<>>
    /\ prevAnalysis = UserAnalysis
    /\ dbTransactions = EmptyDict
    /\ dbUserAnalysis = NoRow
    /\ recomputes = <<>>
    /\ dbPlaceVisits = {}
    /\ syncs = <<>>
    /\ InitMatchIdle
    /\ InitSessionsIdle

Fuse ==
    /\ fused = NoResult
    /\ \E order \in IterationOrders(analysis.categories) :
          fused' = fuse(declared, analysis, max_tx_weight, order)
    /\ UNCHANGED <<analysis, top_merchants_limit, log, prevAnalysis, declared,
                   max_tx_weight, dbTransactions, dbUserAnalysis, recomputes,
                   dbPlaceVisits, syncs>>
    /\ UNCHANGED <<matchVars, sessionVars>>

NextFuse == Fuse

SpecFuse == InitFuse /\ [][NextFuse]_vars

N == analysis.total_transactions

(* C8: for every transaction count n and every max_tx_weight in [0, 1),
   fuse returns tx_weight = min(n/50, max_tx_weight) and quiz_weight =
   1 - tx_weight: the two sum to 1, tx_weight is non-decreasing in n and
   below 1, quiz_weight is positive; with the default 0.7, tx_weight is 0
   at 0, 0.5 at 25 and 0.7 at 50 and at 100 transactions. *)
C8_WeightLaw ==
    fused.status = "ok" =>
        /\ 50 * fused.tx_weight = Min2(N * Scale, 50 * max_tx_weight)
        /\ fused.quiz_weight = Scale - fused.tx_weight
        /\ fused.quiz_weight + fused.tx_weight = Scale
        /\ fused.tx_weight < Scale
        /\ fused.quiz_weight > 0
        /\ N > 0 => fused.tx_weight >= _calculate_weights(N - 1, max_tx_weight)[1]
        /\ max_tx_weight = DefaultMaxTxWeight =>
              /\ N = 0 => fused.tx_weight = 0
              /\ N = 25 => 2 * fused.tx_weight = Scale
              /\ N = 50 => fused.tx_weight = DefaultMaxTxWeight
              /\ N = 100 => fused.tx_weight = DefaultMaxTxWeight

C8_Witness ==
    /\ fused.status = "ok"
    /\ N = 100
    /\ max_tx_weight = DefaultMaxTxWeight
    /\ fused.tx_weight = 700
    /\ fused.quiz_weight = 300

(* C9: the confidence depends on the transaction count n only: 0 at 0,
   1.0 from 100 on and 0.1 + 0.9 n/100 in between; it is non-decreasing in
   n and lies in [0, 1]. *)
C9_ConfidenceLaw ==
    fused.status = "ok" =>
        /\ N = 0 => fused.confidence = 0
        /\ N >= 100 => fused.confidence = Scale
        /\ (0 < N /\ N < 100) => 1000 * fused.confidence = (100 + 9 * N) * Scale
        /\ N > 0 => fused.confidence >= _calculate_confidence(N - 1)
        /\ 0 <= fused.confidence
        /\ fused.confidence <= Scale

C9_Witness ==
    /\ fused.status = "ok"
    /\ N = MaxCount
    /\ fused.confidence = Scale
    /\ _calculate_confidence(99) = 991

(* C10: with total_transactions > 0 and at least one category the
   percentages returned by fuse sum to exactly 100, the rounding remainder
   being added to the first bucket; with zero transactions or no
   categories the list is empty. *)
C10_PercentagesSumToHundred ==
    fused.status = "ok" =>
        IF N > 0 /\ DOMAIN analysis.categories # {}
        THEN /\ Len(fused.categories) = Cardinality(DOMAIN analysis.categories)
             /\ SumPercentage(fused.categories) = 100
        ELSE fused.categories = <<>>

C10_Witness ==
    /\ fused.status = "ok"
    /\ N = 3
    /\ Len(fused.categories) = 3
    /\ fused.categories[1].percentage = 34
    /\ fused.categories[2].percentage = 33
    /\ fused.categories[3].percentage = 33

-----------------------------------------------------------------------------
(* fuse called on the UserAnalysis as ingest leaves it, the way the tests
   of TasteFusion and of the engine hand it over *)

IngestUnfused ==
    /\ fused = NoResult
    /\ Ingest

NextIngestFuse == IngestUnfused \/ Fuse

SpecIngestFuse == InitIngest /\ [][NextIngestFuse]_vars

(* C12: fuse is total: on the default DeclaredTaste and a freshly
   constructed UserAnalysis, or any UserAnalysis returned by ingest, it
   returns without raising; for zero transactions the result has
   quiz_weight 1.0, tx_weight 0.0, confidence 0.0, exploration ratio 0.0
   and no categories. *)
C12_FuseIsTotal ==
    fused # NoResult =>
        /\ fused.status = "ok"
        /\ N = 0 =>
              /\ fused.quiz_weight = Scale
              /\ fused.tx_weight = 0
              /\ fused.confidence = 0
              /\ fused.exploration_ratio.num = 0
              /\ fused.categories = <<>>

(* C17: for every UserAnalysis built by ingests from the empty one, the
   exploration ratio that fuse returns is the number of distinct keys of
   merchant_visits divided by total_transactions, 0 when there are no
   transactions, and lies in [0, 1]. *)
C17_ExplorationRatio ==
    fused # NoResult =>
        /\ fused.status = "ok"
        /\ N = 0 => fused.exploration_ratio.num = 0
        /\ N > 0 =>
              /\ fused.exploration_ratio.num = Cardinality(DOMAIN analysis.merchant_visits)
              /\ fused.exploration_ratio.den = N
        /\ 0 <= fused.exploration_ratio.num
        /\ fused.exploration_ratio.num <= fused.exploration_ratio.den

(* C11: every percentage that fuse returns is an integer from 0 to 100,
   whatever the number of categories and their counts, also after the
   rounding remainder has been added to the first bucket. *)
C11_PercentagesInRange ==
    fused.status = "ok" =>
        \A i \in DOMAIN fused.categories : fused.categories[i].percentage \in 0..100

-----------------------------------------------------------------------------
(* History of the ingests *)

LastTxn == log[Len(log)]

LastCategory == LastTxn.taste_category

LastDate == DateOf(LastTxn.timestamp)

CountIn(c) == Cardinality({i \in DOMAIN log : log[i].taste_category = c})

RECURSIVE SpendOf(_, _)
SpendOf(txns, c) ==
    IF txns = <<>> THEN 0
    ELSE (IF Head(txns).taste_category = c THEN Head(txns).amount ELSE 0)
         + SpendOf(Tail(txns), c)

StatsOf(a, c) == Get(a.categories, c, CategoryStats)

StreakOf(a, c) == Get(a.streaks, c, StreakData)

\* the same multiset of transactions ingested in a reference order that
\* depends on the multiset only, not on the order of the log
RECURSIVE IngestBag(_, _)
IngestBag(bag, limit) ==
    IF BagToSet(bag) = {} THEN UserAnalysis
    ELSE LET txn == CHOOSE t \in BagToSet(bag) : TRUE
         IN  ingest(txn, IngestBag(bag (-) SetToBag({txn}), limit), limit)

RECURSIVE SeqToBag(_)
SeqToBag(txns) ==
    IF txns = <<>> THEN EmptyBag
    ELSE SetToBag({Head(txns)}) (+) SeqToBag(Tail(txns))

Reordered == IngestBag(SeqToBag(log), top_merchants_limit)

-----------------------------------------------------------------------------
(* C1: after any sequence of ingests from an empty UserAnalysis, the count
   of every category is the number of ingested transactions of that
   category and its total_spend is the sum of their amounts; an ingest
   leaves the count and spend of every other category as they were. *)
C1_CategoryTotals ==
    /\ \A c \in Categories :
          /\ StatsOf(analysis, c).count = CountIn(c)
          /\ StatsOf(analysis, c).total_spend = SpendOf(log, c)
          /\ c \in DOMAIN analysis.categories <=> CountIn(c) > 0
    /\ log # <<>> =>
          \A c \in Categories \ {LastCategory} :
              /\ StatsOf(analysis, c).count = StatsOf(prevAnalysis, c).count
              /\ StatsOf(analysis, c).total_spend = StatsOf(prevAnalysis, c).total_spend

C1_Witness ==
    /\ Len(log) = 3
    /\ CountIn("coffee") = 2
    /\ CountIn("mystery") = 1
    /\ analysis.categories["coffee"].total_spend = 7
    /\ analysis.categories["mystery"].total_spend = 5

(* C2: per category, for a transaction dated d that is not earlier than the
   category's last date: no prior date gives current = longest = 1 and last
   date d; the same day changes nothing; the next day gives current + 1,
   longest = max(longest, current) and last date d; a later day gives
   current = 1, last date d and the longest unchanged.  Three consecutive
   days from empty give 3/3; two consecutive days and a gap give 1/2. *)
C2_StreakTransitions ==
    log # <<>> =>
        LET old == StreakOf(prevAnalysis, LastCategory)
            new == StreakOf(analysis, LastCategory)
            d == LastDate
            SameCategory == \A i \in DOMAIN log : log[i].taste_category = LastCategory
            Day(i) == DateOf(log[i].timestamp)
        IN  /\ old.last_date = NoneInt =>
                new = [current |-> 1, longest |-> 1, last_date |-> d]
            /\ old.last_date # NoneInt /\ d = old.last_date => new = old
            /\ old.last_date # NoneInt /\ d = old.last_date + 1 =>
                /\ new.current = old.current + 1
                /\ new.longest = Max2(old.longest, new.current)
                /\ new.last_date = d
            /\ old.last_date # NoneInt /\ d > old.last_date + 1 =>
                /\ new.current = 1
                /\ new.last_date = d
                /\ new.longest = old.longest
            /\ \A c \in Categories \ {LastCategory} :
                StreakOf(analysis, c) = StreakOf(prevAnalysis, c)
            /\ Len(log) = 3 /\ SameCategory /\ Day(2) = Day(1) + 1 /\ Day(3) = Day(2) + 1 =>
                new.current = 3 /\ new.longest = 3
            /\ Len(log) = 3 /\ SameCategory /\ Day(2) = Day(1) + 1 /\ Day(3) > Day(2) + 1 =>
                new.current = 1 /\ new.longest = 2

C2_Witness ==
    /\ Len(log) = 3
    /\ \A i \in DOMAIN log : log[i].taste_category = "coffee"
    /\ DateOf(log[2].timestamp) = DateOf(log[1].timestamp) + 1
    /\ DateOf(log[3].timestamp) = DateOf(log[2].timestamp) + 2
    /\ analysis.streaks["coffee"].current = 1
    /\ analysis.streaks["coffee"].longest = 2

(* C3: in any timestamp order, every category's streak has
   1 <= current <= longest, and no ingest decreases a longest streak. *)
C3_StreakBounds ==
    /\ \A c \in DOMAIN analysis.streaks :
          /\ 1 <= analysis.streaks[c].current
          /\ analysis.streaks[c].current <= analysis.streaks[c].longest
    /\ \A c \in Categories :
          StreakOf(prevAnalysis, c).longest <= StreakOf(analysis, c).longest

C3_Witness ==
    /\ Len(log) = 3
    /\ \A i \in DOMAIN log : log[i].taste_category = "coffee"
    /\ DateOf(log[3].timestamp) < DateOf(log[2].timestamp)
    /\ analysis.streaks["coffee"].longest = 2
    /\ analysis.streaks["coffee"].current = 1

(* C4: after every ingest, for every configured limit >= 1, top_merchants
   has at most top_merchants_limit entries and they are in non-increasing
   order of count. *)
C4_TopMerchantsBounded ==
    /\ Len(analysis.top_merchants) <= top_merchants_limit
    /\ \A i \in 1..(Len(analysis.top_merchants) - 1) :
          analysis.top_merchants[i].count >= analysis.top_merchants[i + 1].count

TopIds(a) == {a.top_merchants[i].merchant_id : i \in DOMAIN a.top_merchants}

C4_Witness ==
    /\ top_merchants_limit = 2
    /\ Len(prevAnalysis.top_merchants) = 2
    /\ Len(analysis.top_merchants) = 2
    /\ TopIds(analysis) # TopIds(prevAnalysis)
    /\ analysis.top_merchants[1].count > analysis.top_merchants[2].count

(* C5 as stated: every field other than streaks is independent of the
   ingestion order, top_merchants and the first/last timestamps included. *)
C5_AllButStreaksCommute ==
    /\ analysis.categories = Reordered.categories
    /\ analysis.time_buckets = Reordered.time_buckets
    /\ analysis.day_types = Reordered.day_types
    /\ analysis.merchant_visits = Reordered.merchant_visits
    /\ analysis.top_merchants = Reordered.top_merchants
    /\ analysis.exploration = Reordered.exploration
    /\ analysis.total_transactions = Reordered.total_transactions
    /\ analysis.first_transaction_at = Reordered.first_transaction_at
    /\ analysis.last_transaction_at = Reordered.last_transaction_at

(* C5 amended: categories, time_buckets, day_types, merchant_visits,
   exploration and total_transactions are independent of the ingestion
   order: the same multiset of transactions ingested in another order
   yields the same values. *)
C5_CountersCommute ==
    /\ analysis.categories = Reordered.categories
    /\ analysis.time_buckets = Reordered.time_buckets
    /\ analysis.day_types = Reordered.day_types
    /\ analysis.merchant_visits = Reordered.merchant_visits
    /\ analysis.exploration = Reordered.exploration
    /\ analysis.total_transactions = Reordered.total_transactions

C5_Witness ==
    /\ Len(log) = 3
    /\ analysis.top_merchants # Reordered.top_merchants
    /\ analysis.first_transaction_at # Reordered.first_transaction_at
    /\ Cardinality(DOMAIN analysis.day_types) = 2
    /\ Cardinality(DOMAIN analysis.merchant_visits) = 2

(* C7: a transaction with no merchant key updates the category count and
   spend, the time-bucket and day-type counters, the category streak and
   the transaction count and timestamps, and leaves merchant_visits,
   top_merchants, every category's merchant set and the exploration
   counters unchanged; an unrecognised category is tracked as any other. *)
C7_NoMerchantKey ==
    (log # <<>> /\ ~Truthy(MerchantKey(LastTxn))) =>
        LET t == LastTxn
            c == LastCategory
        IN  /\ c \in DOMAIN analysis.categories
            /\ analysis.categories[c].count = StatsOf(prevAnalysis, c).count + 1
            /\ analysis.categories[c].total_spend =
                   StatsOf(prevAnalysis, c).total_spend + t.amount
            /\ analysis.time_buckets[t.time_bucket] =
                   Get(prevAnalysis.time_buckets, t.time_bucket, 0) + 1
            /\ analysis.day_types[t.day_type] =
                   Get(prevAnalysis.day_types, t.day_type, 0) + 1
            /\ analysis.streaks[c].last_date = LastDate
            /\ analysis.streaks[c].current >= 1
            /\ analysis.total_transactions = prevAnalysis.total_transactions + 1
            /\ analysis.last_transaction_at = t.timestamp
            /\ analysis.first_transaction_at =
                   (IF prevAnalysis.first_transaction_at = NoneInt THEN t.timestamp
                    ELSE prevAnalysis.first_transaction_at)
            /\ analysis.merchant_visits = prevAnalysis.merchant_visits
            /\ analysis.top_merchants = prevAnalysis.top_merchants
            /\ analysis.exploration = prevAnalysis.exploration
            /\ \A k \in Categories :
                   StatsOf(analysis, k).merchants = StatsOf(prevAnalysis, k).merchants

C7_Witness ==
    /\ Len(log) = 3
    /\ ~Truthy(MerchantKey(LastTxn))
    /\ LastCategory = "mystery"
    /\ "mystery" \notin DOMAIN prevAnalysis.categories
    /\ prevAnalysis.top_merchants # <<>>
    /\ prevAnalysis.exploration # EmptyDict

-----------------------------------------------------------------------------
(* Strings.  str.lower(), str.strip() and float() are tabulated on the
   strings that occur here; a string the table does not list is already in
   the form the method returns. *)

Range(seq) == {seq[i] : i \in DOMAIN seq}

Upper == [Italian |-> "italian", Thai |-> "thai", Coffee |-> "coffee",
          Dining |-> "dining", Nightlife |-> "nightlife", Upscale |-> "upscale",
          BUDGET |-> "budget", Luxury |-> "luxury", Other |-> "other",
          Entertainment |-> "entertainment"]

\* str.lower()
Lower(str) == IF str \in DOMAIN Upper THEN Upper[str] ELSE str

\* str.strip()
Strip(str) ==
    CASE str = " $$ " -> "$$"
      [] str = " " -> ""
      [] OTHER -> str

\* component scores are floats in [0, 1]: multiples of 1/Unit
Unit == 3000

-----------------------------------------------------------------------------
(* mappings/price_mappings.py *)

USER_PRICE_LEVELS == [budget |-> 0, moderate |-> 1, premium |-> 2, luxury |-> 3]

DOLLAR_SIGN_LEVELS == ("$" :> 0) @@ ("$$" :> 1) @@ ("$$$" :> 2) @@ ("$$$$" :> 3)

\* the keys written with a hyphen; the en-dash keys carry the same levels
PRICE_RANGE_LEVELS ==
    ("$1-10" :> 0) @@ ("$10-20" :> 1) @@ ("$20-30" :> 1) @@ ("$30-50" :> 2)
    @@ ("$50-100" :> 2) @@ ("$100+" :> 3) @@ ("$32.00" :> 2)

\* float(price_str.replace("$", "").replace(",", "")) in cents, for the
\* strings that parse; any other string raises ValueError
DollarAmount == ("$12" :> 1200) @@ ("$15" :> 1500) @@ ("$45" :> 4500) @@ ("$250" :> 25000)

\* price_str.startswith("$") and not price_str.startswith("$$")
StartsWithOneDollar(str) ==
    str \in DOMAIN DollarAmount \cup DOMAIN PRICE_RANGE_LEVELS \cup {"$", "$abc"}

normalize_venue_price(price_str) ==
    IF ~Truthy(price_str) THEN 1
    ELSE LET stripped == Strip(price_str)
         IN  IF stripped \in DOMAIN DOLLAR_SIGN_LEVELS THEN DOLLAR_SIGN_LEVELS[stripped]
             ELSE IF stripped \in DOMAIN PRICE_RANGE_LEVELS THEN PRICE_RANGE_LEVELS[stripped]
             ELSE IF StartsWithOneDollar(stripped) /\ stripped \in DOMAIN DollarAmount
                  THEN LET amount == DollarAmount[stripped]
                       IN  IF amount < 1500 THEN 0
                           ELSE IF amount < 4000 THEN 1
                           ELSE IF amount < 8000 THEN 2
                           ELSE 3
             ELSE 1

normalize_user_price(user_tier) ==
    IF ~Truthy(user_tier) THEN 1
    ELSE Get(USER_PRICE_LEVELS, Lower(user_tier), 1)

\* slip: a venue one tier cheaper than the user counts as an exact match
calculate_price_match_Lenient(user_tier, venue_price) ==
    LET diff == normalize_venue_price(venue_price) - normalize_user_price(user_tier)
    IN  IF diff = 0 \/ diff = -1 THEN Unit
        ELSE IF diff = 1 THEN Unit \div 2
        ELSE 0

calculate_price_match(user_tier, venue_price) ==
    LET user_level == normalize_user_price(user_tier)
        venue_level == normalize_venue_price(venue_price)
        diff == Abs(user_level - venue_level)
    IN  IF diff = 0 THEN Unit
        ELSE IF diff = 1 THEN Unit \div 2
        ELSE 0

-----------------------------------------------------------------------------
(* mappings/category_mappings.py *)

\* cat.lower().replace(" ", "_").replace("-", "_")
_normalize_category(cat) ==
    CASE cat = "Fast Food" -> "fast_food"
      [] cat = "fast-food" -> "fast_food"
      [] cat = "Other Food" -> "other_food"
      [] OTHER -> Lower(cat)

\* slip: the "other" category counts towards coffee venues
VENUE_TO_USER_CATEGORIES_WithOther ==
    [coffee |-> <<"coffee", "other">>,
     dining |-> <<"dining", "fast_food">>,
     nightlife |-> <<"nightlife", "entertainment">>,
     bakery |-> <<"dining", "fast_food", "coffee">>]

VENUE_TO_USER_CATEGORIES ==
    [coffee |-> <<"coffee">>,
     dining |-> <<"dining", "fast_food">>,
     nightlife |-> <<"nightlife", "entertainment">>,
     bakery |-> <<"dining", "fast_food", "coffee">>]

\* the percentage of the first entry of the dict whose normalised name is
\* cat, 0 if there is none; user_categories is the dict in iteration order
FirstPercentage(user_categories, cat) ==
    LET found == {i \in DOMAIN user_categories :
                     _normalize_category(user_categories[i].name) = _normalize_category(cat)}
    IN  IF found = {} THEN 0
        ELSE user_categories[CHOOSE i \in found : \A j \in found : i <= j].percentage

RECURSIVE SumRelevant(_, _)
SumRelevant(user_categories, relevant_user_cats) ==
    IF relevant_user_cats = <<>> THEN 0
    ELSE FirstPercentage(user_categories, Head(relevant_user_cats))
         + SumRelevant(user_categories, Tail(relevant_user_cats))

\* min(total_pct / 30.0, 1.0)
calculate_category_affinity(user_categories, venue_cluster) ==
    IF ~Truthy(venue_cluster) \/ user_categories = <<>> THEN 0
    ELSE LET relevant_user_cats == Get(VENUE_TO_USER_CATEGORIES, Lower(venue_cluster), <<>>)
         IN  IF relevant_user_cats = <<>> THEN 0
             ELSE Min2((SumRelevant(user_categories, relevant_user_cats) * Unit) \div 30, Unit)

-----------------------------------------------------------------------------
(* mappings/vibe_mappings.py *)

ENERGY_TO_VIBES ==
    [chill |-> {"chill", "intimate", "cozy", "relaxed", "romantic", "homebody"},
     moderate |-> {"social", "casual", "trendy", "upscale", "elegant"},
     lively |-> {"energetic", "fun", "adventurous", "social"}]

\* 1.0 for an overlap of two or more, 0.5 for one, 0.0 for none
OverlapScore(overlap) ==
    IF overlap >= 2 THEN Unit
    ELSE IF overlap = 1 THEN Unit \div 2
    ELSE 0

calculate_energy_match(user_vibes, venue_energy) ==
    IF ~Truthy(venue_energy) \/ user_vibes = <<>> THEN 0
    ELSE OverlapScore(Cardinality(Range(user_vibes) \cap Get(ENERGY_TO_VIBES, venue_energy, {})))

EXPLORATION_BONUSES ==
    [adventurous |-> [hidden_gem |-> Unit, cult_following |-> (7 * Unit) \div 10],
     very_adventurous |-> [hidden_gem |-> Unit, cult_following |-> (7 * Unit) \div 10],
     moderate |-> [hidden_gem |-> (3 * Unit) \div 10, cult_following |-> 0],
     routine |-> EmptyDict]

RECURSIVE MaxBonus(_, _)
MaxBonus(bonuses, venue_standout) ==
    IF venue_standout = <<>> THEN 0
    ELSE Max2(MaxBonus(bonuses, SubSeq(venue_standout, 1, Len(venue_standout) - 1)),
              Get(bonuses, venue_standout[Len(venue_standout)], 0))

calculate_exploration_bonus(exploration_style, venue_standout) ==
    IF ~Truthy(exploration_style) \/ venue_standout = <<>> THEN 0
    ELSE MaxBonus(Get(EXPLORATION_BONUSES, exploration_style, EmptyDict), venue_standout)

-----------------------------------------------------------------------------
(* mappings/mood_mappings.py *)

MoodConfig(energy_match, best_for_match, standout_boost) ==
    [energy_match |-> energy_match,
     best_for_match |-> best_for_match,
     standout_boost |-> standout_boost,
     energy_boost |-> 8,
     best_for_boost |-> 4,
     standout_boost_amt |-> 3]

MOOD_CONFIGS ==
    [chill |-> MoodConfig({"chill"}, {"solo_work", "casual_hangout"}, {"cozy_vibes"}),
     energetic |-> MoodConfig({"lively"}, {"group_celebration", "late_night"}, {}),
     romantic |-> MoodConfig({"chill", "moderate"}, {"date_night"},
                             {"cozy_vibes", "upscale_feel"}),
     social |-> MoodConfig({"moderate", "lively"}, {"group_celebration", "casual_hangout"}, {}),
     adventurous |-> MoodConfig({"moderate", "lively"}, {}, {"hidden_gem", "cult_following"}),
     cozy |-> MoodConfig({"chill"}, {"casual_hangout", "solo_work"},
                         {"cozy_vibes", "local_favorite"})]

\* the boost before the cap
MoodBoostSum(config, venue_energy, venue_best_for, venue_standout) ==
    (IF Truthy(venue_energy) /\ venue_energy \in config.energy_match
     THEN config.energy_boost ELSE 0)
    + Cardinality(Range(venue_best_for) \cap config.best_for_match) * config.best_for_boost
    + Cardinality(Range(venue_standout) \cap config.standout_boost) * config.standout_boost_amt

calculate_mood_boost(mood, venue_energy, venue_best_for, venue_standout) ==
    IF mood \notin DOMAIN MOOD_CONFIGS THEN 0
    ELSE Min2(MoodBoostSum(MOOD_CONFIGS[mood], venue_energy, venue_best_for, venue_standout),
              20)

-----------------------------------------------------------------------------
(* intelligence/matching_engine.py.  A user taste and a venue are dicts; a
   key that is absent reads as its .get default.  Weights are hundredths. *)

SOCIAL_OCCASION_MAP ==
    [solo |-> {"solo_work", "quick_bite"},
     small_group |-> {"date_night", "casual_hangout", "business_lunch"},
     big_group |-> {"group_celebration", "late_night", "casual_hangout"}]

VIBE_OCCASION_MAP ==
    [romantic |-> {"date_night"},
     intimate |-> {"date_night", "casual_hangout"},
     social |-> {"group_celebration", "casual_hangout", "late_night"},
     energetic |-> {"group_celebration", "late_night"},
     chill |-> {"solo_work", "casual_hangout"},
     relaxed |-> {"solo_work", "casual_hangout"},
     upscale |-> {"date_night", "business_lunch"},
     elegant |-> {"date_night", "business_lunch"},
     casual |-> {"casual_hangout", "quick_bite"},
     fun |-> {"group_celebration", "late_night"}]

COFFEE_FRIENDLY_VIBES == {"chill", "relaxed", "intimate", "homebody", "casual"}

NIGHTLIFE_FRIENDLY_VIBES == {"social", "energetic", "fun", "trendy", "adventurous"}

\* slip: the cuisine weight is 0.30, the weights sum to 1.05
DINING_WEIGHTS_Heavy ==
    [category |-> 20, cuisine |-> 30, price |-> 20, energy |-> 15, context |-> 15,
     discovery |-> 5]

DINING_WEIGHTS ==
    [category |-> 20, cuisine |-> 25, price |-> 20, energy |-> 15, context |-> 15,
     discovery |-> 5]

NON_DINING_WEIGHTS ==
    [category |-> 25, venue_fit |-> 20, price |-> 20, energy |-> 15, context |-> 15,
     discovery |-> 5]

NEW_USER_WEIGHTS ==
    [cuisine_or_fit |-> 30, price |-> 25, energy |-> 20, context |-> 15, discovery |-> 10]

_category_score(taste, venue) ==
    calculate_category_affinity(taste.categories, venue.taste_cluster)

\* cuisines_lower.index(venue_cuisine_lower), -1 if it is not in the list
RankOf(cuisines, venue_cuisine) ==
    LET found == {i \in DOMAIN cuisines : Lower(cuisines[i]) = Lower(venue_cuisine)}
    IN  IF found = {} THEN -1
        ELSE (CHOOSE i \in found : \A j \in found : i <= j) - 1

\* max(1.0 - rank * 0.15, 0.0)
_cuisine_score_from_list(cuisines, venue) ==
    IF ~Truthy(venue.cuisine_type) \/ cuisines = <<>> THEN 0
    ELSE LET rank == RankOf(cuisines, venue.cuisine_type)
         IN  IF rank = -1 THEN 0
             ELSE Max2(Unit - rank * ((15 * Unit) \div 100), 0)

\* slip: the two sources are blended even when one of them is empty
_cuisine_score_AlwaysBlend(taste, venue) ==
    IF ~Truthy(venue.cuisine_type) THEN 0
    ELSE (_cuisine_score_from_list(taste.top_cuisines, venue) * taste.tx_weight
          + _cuisine_score_from_list(taste.cuisine_preferences, venue)
            * (Scale - taste.tx_weight)) \div Scale

_cuisine_score(taste, venue) ==
    IF ~Truthy(venue.cuisine_type) THEN 0
    ELSE LET tx_cuisines == taste.top_cuisines
             quiz_cuisines == taste.cuisine_preferences
             tx_weight == taste.tx_weight
             quiz_weight == Scale - tx_weight
             tx_score == _cuisine_score_from_list(tx_cuisines, venue)
             quiz_score == _cuisine_score_from_list(quiz_cuisines, venue)
         IN  IF tx_cuisines = <<>> THEN quiz_score
             ELSE IF quiz_cuisines = <<>> THEN tx_score
             ELSE (tx_score * tx_weight + quiz_score * quiz_weight) \div Scale

_coffee_fit_score(taste, venue) ==
    LET vibe_overlap == Cardinality(Range(taste.vibes) \cap COFFEE_FRIENDLY_VIBES)
        social_pref == taste.social_preference
        best_for == Range(venue.best_for)
        coffee_pref == taste.coffee_preference
    IN  Min2(Min2(vibe_overlap * ((2 * Unit) \div 10), (4 * Unit) \div 10)
             + (IF social_pref = "solo" /\ "solo_work" \in best_for
                THEN (4 * Unit) \div 10
                ELSE IF social_pref \in {"small_group", "big_group"}
                        /\ "casual_hangout" \in best_for
                THEN (3 * Unit) \div 10
                ELSE Unit \div 10)
             + (IF coffee_pref = "third_wave" THEN (2 * Unit) \div 10
                ELSE IF coffee_pref = "any" THEN Unit \div 10
                ELSE 0),
             Unit)

\* the score of a nightlife venue before the cap
NightlifeFitSum(taste, venue) ==
    LET social_pref == taste.social_preference
        user_vibes == Range(taste.vibes)
        vibe_overlap == Cardinality(user_vibes \cap NIGHTLIFE_FRIENDLY_VIBES)
        best_for == Range(venue.best_for)
    IN  (IF social_pref = "big_group" THEN (40 * Unit) \div 100
         ELSE IF social_pref = "small_group" THEN (30 * Unit) \div 100
         ELSE IF social_pref = "solo" THEN (5 * Unit) \div 100
         ELSE (15 * Unit) \div 100)
        + Min2(vibe_overlap * ((15 * Unit) \div 100), (45 * Unit) \div 100)
        + (IF social_pref = "big_group" /\ "group_celebration" \in best_for
           THEN (15 * Unit) \div 100 ELSE 0)
        + (IF "late_night" \in best_for /\ "energetic" \in user_vibes
           THEN (10 * Unit) \div 100 ELSE 0)

_nightlife_fit_score(taste, venue) == Min2(NightlifeFitSum(taste, venue), Unit)

_bakery_fit_score(taste, venue) ==
    LET vibe_overlap == Cardinality(Range(taste.vibes) \cap {"chill", "relaxed", "cozy", "casual"})
        best_for == Range(venue.best_for)
    IN  Min2((15 * Unit) \div 100
             + Min2(vibe_overlap * ((15 * Unit) \div 100), (30 * Unit) \div 100)
             + (IF "quick_bite" \in best_for THEN (20 * Unit) \div 100 ELSE 0)
             + (IF "casual_hangout" \in best_for THEN (15 * Unit) \div 100 ELSE 0),
             Unit)

_venue_type_fit_score(taste, venue) ==
    LET venue_cluster == Lower(venue.taste_cluster)
    IN  IF venue_cluster = "coffee" THEN _coffee_fit_score(taste, venue)
        ELSE IF venue_cluster = "nightlife" THEN _nightlife_fit_score(taste, venue)
        ELSE IF venue_cluster = "bakery" THEN _bakery_fit_score(taste, venue)
        ELSE 0

_social_to_best_for_match(social_pref, best_for) ==
    IF ~Truthy(social_pref) THEN 0
    ELSE OverlapScore(Cardinality(Range(best_for) \cap Get(SOCIAL_OCCASION_MAP, social_pref, {})))

_vibes_to_occasion_match(vibes, best_for) ==
    IF vibes = <<>> THEN 0
    ELSE LET relevant_occasions ==
                 UNION {Get(VIBE_OCCASION_MAP, Lower(vibes[i]), {}) : i \in DOMAIN vibes}
         IN  OverlapScore(Cardinality(Range(best_for) \cap relevant_occasions))

_context_match_score(taste, venue) ==
    IF venue.best_for = <<>> THEN 0
    ELSE Min2(_social_to_best_for_match(taste.social_preference, venue.best_for) \div 2
              + _vibes_to_occasion_match(taste.vibes, venue.best_for) \div 2,
              Unit)

\* round(x) of x = num / den, halves to the even neighbour
RoundHalfEven(num, den) ==
    LET q == num \div den
        r == num % den
    IN  IF 2 * r < den THEN q
        ELSE IF 2 * r > den THEN q + 1
        ELSE IF q % 2 = 0 THEN q ELSE q + 1

RECURSIVE WeightedSum(_, _, _)
\* sum(weights.get(k, 0) * v for k, v in scores.items())
WeightedSum(weights, scores, keys) ==
    IF keys = {} THEN 0
    ELSE LET k == CHOOSE k \in keys : TRUE
         IN  Get(weights, k, 0) * scores[k] + WeightedSum(weights, scores, keys \ {k})

\* match_score=min(max(round(total * 100), 0), 100)
MatchResult(weights, scores) ==
    [match_score |->
         Min2(Max2(RoundHalfEven(WeightedSum(weights, scores, DOMAIN scores), Unit), 0), 100),
     scores |-> scores,
     reasons |-> <<>>]

IsDining(venue) == venue.cuisine_type # NoneStr

\* venue.get("taste_cluster", "").lower() in _venue_type_fit_score: the key
\* is present, so a null taste_cluster is None and .lower() raises
FitRaises(venue) == ~IsDining(venue) /\ venue.taste_cluster = NoneStr

\* MatchingEngine.score
score(taste, venue) ==
    LET shared ==
            [category |-> _category_score(taste, venue),
             price |-> calculate_price_match(taste.price_tier, venue.price_tier),
             energy |-> calculate_energy_match(taste.vibes, venue.energy),
             context |-> _context_match_score(taste, venue),
             discovery |-> calculate_exploration_bonus(taste.exploration_style,
                                                       venue.standout)]
    IN  IF IsDining(venue)
        THEN MatchResult(DINING_WEIGHTS,
                         shared @@ [cuisine |-> _cuisine_score(taste, venue)])
        ELSE MatchResult(NON_DINING_WEIGHTS,
                         shared @@ [venue_fit |-> _venue_type_fit_score(taste, venue)])

\* MatchingEngine.score_new_user
score_new_user(taste, venue) ==
    MatchResult(NEW_USER_WEIGHTS,
        [cuisine_or_fit |->
             IF IsDining(venue)
             THEN _cuisine_score_from_list(taste.cuisine_preferences, venue)
             ELSE _venue_type_fit_score(taste, venue),
         price |-> calculate_price_match(taste.price_tier, venue.price_tier),
         energy |-> calculate_energy_match(taste.vibes, venue.energy),
         context |-> _context_match_score(taste, venue),
         discovery |-> calculate_exploration_bonus(taste.exploration_style, venue.standout)])

\* results.sort(key=_sort_score, reverse=True): stable
RECURSIVE SortBySortScoreDesc(_)
InsertBySortScoreDesc(sorted, r) ==
    LET k == Cardinality({i \in DOMAIN sorted : sorted[i]._sort_score >= r._sort_score})
    IN  SubSeq(sorted, 1, k) \o <<r>> \o SubSeq(sorted, k + 1, Len(sorted))

SortBySortScoreDesc(results) ==
    IF results = <<>> THEN <<>>
    ELSE InsertBySortScoreDesc(SortBySortScoreDesc(SubSeq(results, 1, Len(results) - 1)),
                               results[Len(results)])

\* one entry of the list apply_mood_filter builds
MoodEntry(venue, mood, taste) ==
    LET base_result == IF taste.categories # <<>> THEN score(taste, venue)
                       ELSE score_new_user(taste, venue)
        mood_boost == calculate_mood_boost(mood, venue.energy, venue.best_for, venue.standout)
    IN  [venue |-> venue,
         match_score |-> base_result.match_score,
         scores |-> base_result.scores,
         _sort_score |-> base_result.match_score + mood_boost]

\* MatchingEngine.apply_mood_filter
apply_mood_filter(venue_list, mood, taste) ==
    SortBySortScoreDesc([i \in DOMAIN venue_list |-> MoodEntry(venue_list[i], mood, taste)])

-----------------------------------------------------------------------------
(* User tastes and venues handed to the MatchingEngine *)

\* the quiz side of a user taste
Persona(vibes, social_preference, coffee_preference, price_tier, exploration_style, cuisine_preferences) ==
    [vibes |-> vibes,
     social_preference |-> social_preference,
     coffee_preference |-> coffee_preference,
     price_tier |-> price_tier,
     exploration_style |-> exploration_style,
     cuisine_preferences |-> cuisine_preferences]

Personas ==
    {Persona(<<"chill", "relaxed">>, "solo", "third_wave", "budget", "adventurous",
             <<"italian", "thai">>),
     Persona(<<"social", "energetic", "fun">>, "big_group", NoneStr, "luxury", "routine",
             <<>>),
     Persona(<<"romantic", "Upscale">>, "small_group", "any", "moderate", "moderate",
             <<"Thai">>),
     Persona(<<>>, NoneStr, NoneStr, NoneStr, NoneStr, <<>>)}

Pct(name, percentage) == [name |-> name, percentage |-> percentage]

\* the transaction side: categories (name -> percentage, in the order of
\* the dict), top_cuisines and tx_weight; the first is a new user
Histories ==
    {[categories |-> <<>>, top_cuisines |-> <<>>, tx_weight |-> 0],
     [categories |-> <<Pct("Coffee", 30), Pct("Dining", 70)>>,
      top_cuisines |-> <<"italian", "thai">>, tx_weight |-> 500],
     [categories |-> <<Pct("coffee", 6), Pct("Other", 63), Pct("Entertainment", 19),
                       Pct("Fast Food", 12)>>,
      top_cuisines |-> <<"thai">>, tx_weight |-> 700],
     [categories |-> <<Pct("Nightlife", 100)>>, top_cuisines |-> <<>>, tx_weight |-> 1000]}

UserTastes == {persona @@ history : persona \in Personas, history \in Histories}

Venue(id, taste_cluster, cuisine_type, price_tier, energy, best_for, standout) ==
    [id |-> id,
     taste_cluster |-> taste_cluster,
     cuisine_type |-> cuisine_type,
     price_tier |-> price_tier,
     energy |-> energy,
     best_for |-> best_for,
     standout |-> standout]

Venues ==
    {Venue("v1", "dining", "Italian", "$", "chill",
           <<"solo_work", "quick_bite", "casual_hangout">>, <<"hidden_gem">>),
     Venue("v2", "coffee", NoneStr, "$", "chill",
           <<"solo_work", "quick_bite", "casual_hangout">>,
           <<"hidden_gem", "cozy_vibes", "local_favorite">>),
     Venue("v3", "nightlife", NoneStr, "$$$$", "lively",
           <<"group_celebration", "late_night">>, <<>>),
     Venue("v4", "bakery", NoneStr, NoneStr, "moderate", <<"quick_bite">>,
           <<"cult_following">>),
     Venue("v5", "dining", "thai", "$10-20", NoneStr, <<"date_night">>,
           <<"cozy_vibes", "upscale_feel">>),
     Venue("v6", "bookstore", NoneStr, "$$$", "moderate", <<>>, <<>>),
     Venue("v7", "Dining", "", "$$", "lively",
           <<"date_night", "business_lunch", "casual_hangout">>, <<"local_favorite">>),
     \* a venue as add_venue_to_session creates it from a name alone
     Venue("v8", NoneStr, NoneStr, NoneStr, NoneStr, <<>>, <<>>)}

Moods == DOMAIN MOOD_CONFIGS \cup {"sleepy"}

VenueLists == UNION {[1..n -> Venues] : n \in 1..MaxVenues}

InitMatch ==
    /\ user_taste \in UserTastes
    /\ venues \in VenueLists
    /\ match = NoResult
    /\ analysis = UserAnalysis
    /\ top_merchants_limit = DefaultTopMerchantsLimit
    /\ log = <<>>
    /\ prevAnalysis = UserAnalysis
    /\ declared = [vibe_preferences |-> <<>>]
    /\ max_tx_weight = DefaultMaxTxWeight
    /\ fused = NoResult
    /\ dbTransactions = EmptyDict
    /\ dbUserAnalysis = NoRow
    /\ recomputes = <<>>
    /\ dbPlaceVisits = {}
    /\ syncs = <<>>
    /\ InitSessionsIdle

\* the outcome of one call of the engine
Called(op, venue, mood, result) ==
    [status |-> "ok", op |-> op, venue |-> venue, mood |-> mood, result |-> result]

\* the outcome of a call that raised
Failed(op, venue, mood, exception) ==
    [status |-> exception, op |-> op, venue |-> venue, mood |-> mood]

Score ==
    /\ match = NoResult
    /\ \E i \in DOMAIN venues :
          match' = IF FitRaises(venues[i])
                   THEN Failed("score", venues[i], NoneStr, "AttributeError")
                   ELSE Called("score", venues[i], NoneStr, score(user_taste, venues[i]))
    /\ UNCHANGED <<user_taste, venues, tasteVars, sessionVars>>

ScoreNewUser ==
    /\ match = NoResult
    /\ \E i \in DOMAIN venues :
          match' = IF FitRaises(venues[i])
                   THEN Failed("score_new_user", venues[i], NoneStr, "AttributeError")
                   ELSE Called("score_new_user", venues[i], NoneStr,
                               score_new_user(user_taste, venues[i]))
    /\ UNCHANGED <<user_taste, venues, tasteVars, sessionVars>>

ApplyMoodFilter ==
    /\ match = NoResult
    /\ \E mood \in Moods :
          match' = IF \E i \in DOMAIN venues : FitRaises(venues[i])
                   THEN Failed("apply_mood_filter", NoneStr, mood, "AttributeError")
                   ELSE Called("apply_mood_filter", NoneStr, mood,
                               apply_mood_filter(venues, mood, user_taste))
    /\ UNCHANGED <<user_taste, venues, tasteVars, sessionVars>>

NextMatch == Score \/ ScoreNewUser \/ ApplyMoodFilter

SpecMatch == InitMatch /\ [][NextMatch]_vars

(* C13: for every venue record, score and score_new_user return a result
   with an integer match_score from 0 to 100 and component scores from 0.0
   to 1.0 each, for a user taste whose category percentages are within
   0..100 and whose tx_weight is within [0, 1]. *)
C13_ScoresInRange ==
    (match.status # "none" /\ match.op \in {"score", "score_new_user"}
     /\ user_taste.tx_weight \in 0..Scale
     /\ \A i \in DOMAIN user_taste.categories :
           user_taste.categories[i].percentage \in 0..100) =>
        /\ match.status = "ok"
        /\ match.result.match_score \in 0..100
        /\ \A k \in DOMAIN match.result.scores : match.result.scores[k] \in 0..Unit

\* the sum of a weight set, in hundredths
WeightTotal(weights) == WeightedSum(weights, [k \in DOMAIN weights |-> 1], DOMAIN weights)

\* the weight set the scoring mode of the last call selects
SelectedWeights ==
    IF match.op = "score_new_user" THEN NEW_USER_WEIGHTS
    ELSE IF match.venue.cuisine_type # NoneStr THEN DINING_WEIGHTS
    ELSE NON_DINING_WEIGHTS

(* C15: the weights of each scoring mode (dining, non-dining, new user)
   sum to exactly 1.0; score uses the dining weights iff the venue's
   cuisine_type is non-null; every component computed has a weight in the
   selected set, so components that are all 1.0 give match_score 100. *)
C15_WeightsSumToOne ==
    /\ WeightTotal(DINING_WEIGHTS) = 100
    /\ WeightTotal(NON_DINING_WEIGHTS) = 100
    /\ WeightTotal(NEW_USER_WEIGHTS) = 100
    /\ (match.status = "ok" /\ match.op \in {"score", "score_new_user"}) =>
          /\ DOMAIN match.result.scores = DOMAIN SelectedWeights
          /\ match.op = "score" =>
                ("cuisine" \in DOMAIN match.result.scores <=> match.venue.cuisine_type # NoneStr)
          /\ Unit * match.result.match_score - WeightedSum(SelectedWeights, match.result.scores,
                                                          DOMAIN SelectedWeights)
                \in (0 - Unit \div 2)..(Unit \div 2)
          /\ (\A k \in DOMAIN match.result.scores : match.result.scores[k] = Unit) =>
                match.result.match_score = 100

\* a dining venue on which all six components are 1.0
C15_Witness ==
    /\ match.status = "ok"
    /\ match.op = "score"
    /\ match.venue.cuisine_type = "Italian"
    /\ DOMAIN match.result.scores = DOMAIN DINING_WEIGHTS
    /\ \A k \in DOMAIN match.result.scores : match.result.scores[k] = Unit
    /\ match.result.match_score = 100

\* the unboosted score that score or score_new_user gives the venue
BaseScore(venue) ==
    IF user_taste.categories # <<>> THEN score(user_taste, venue).match_score
    ELSE score_new_user(user_taste, venue).match_score

(* C16: apply_mood_filter returns exactly one result per input venue,
   ordered by non-increasing base score plus mood boost; the boost is an
   integer from 0 to 20, 0 for an unknown mood; the reported match_score is
   the unboosted score of score / score_new_user, so _sort_score >=
   match_score. *)
C16_MoodFilter ==
    (match.status # "none" /\ match.op = "apply_mood_filter") =>
        LET results == match.result
        IN  /\ match.status = "ok"
            /\ Len(results) = Len(venues)
            /\ SeqToBag([i \in DOMAIN results |-> results[i].venue]) = SeqToBag(venues)
            /\ \A i \in DOMAIN results :
                  /\ results[i].match_score = BaseScore(results[i].venue)
                  /\ results[i]._sort_score - results[i].match_score \in 0..20
                  /\ match.mood \notin DOMAIN MOOD_CONFIGS =>
                        results[i]._sort_score = results[i].match_score
                  /\ results[i]._sort_score >= results[i].match_score
            /\ \A i \in 1..(Len(results) - 1) :
                  results[i]._sort_score >= results[i + 1]._sort_score

-----------------------------------------------------------------------------
(* calculate_price_match on the tiers and price strings of the tables *)

UserTiers ==
    {NoneStr, "", "budget", "moderate", "premium", "luxury", "BUDGET", "Luxury", "cheap"}

VenuePrices ==
    {NoneStr, "", " ", "$", "$$", "$$$", "$$$$", " $$ ", "$1-10", "$10-20", "$30-50",
     "$100+", "$32.00", "$12", "$15", "$45", "$250", "$abc", "free"}

InitPrice ==
    /\ \E taste \in UserTastes, tier \in UserTiers :
          /\ taste.categories = <<>>
          /\ taste.vibes = <<>>
          /\ user_taste = [taste EXCEPT !.price_tier = tier]
    /\ \E venue \in Venues, price \in VenuePrices :
          /\ venue.id = "v6"
          /\ venues = <<[venue EXCEPT !.price_tier = price]>>
    /\ match = NoResult
    /\ analysis = UserAnalysis
    /\ top_merchants_limit = DefaultTopMerchantsLimit
    /\ log = <<>>
    /\ prevAnalysis = UserAnalysis
    /\ declared = [vibe_preferences |-> <<>>]
    /\ max_tx_weight = DefaultMaxTxWeight
    /\ fused = NoResult
    /\ dbTransactions = EmptyDict
    /\ dbUserAnalysis = NoRow
    /\ recomputes = <<>>
    /\ dbPlaceVisits = {}
    /\ syncs = <<>>
    /\ InitSessionsIdle

PriceMatch ==
    /\ match = NoResult
    /\ match' = Called("calculate_price_match", venues[1], NoneStr,
                       calculate_price_match(user_taste.price_tier, venues[1].price_tier))
    /\ UNCHANGED <<user_taste, venues, tasteVars, sessionVars>>

NextPrice == PriceMatch

SpecPrice == InitPrice /\ [][NextPrice]_vars

\* the tiers of the user and the dollar signs of the venue, cheapest first
PriceTiers == <<"budget", "moderate", "premium", "luxury">>

DollarSigns == <<"$", "$$", "$$$", "$$$$">>

(* C14: the price score depends only on the distance of the tiers (budget,
   moderate, premium, luxury against $, $$, $$$, $$$$): 1.0 for the same
   tier, 0.5 for one tier apart, 0.0 for two or more, symmetric in which
   side is the more expensive; budget against $$$ is 0.0. *)
C14_PriceByTierDistance ==
    (match.status = "ok" /\ match.op = "calculate_price_match") =>
        \A i, j \in 1..4 :
            (user_taste.price_tier = PriceTiers[i] /\ match.venue.price_tier = DollarSigns[j]) =>
                /\ match.result = (CASE Abs(i - j) = 0 -> Unit
                                     [] Abs(i - j) = 1 -> Unit \div 2
                                     [] OTHER -> 0)
                /\ match.result = calculate_price_match(PriceTiers[j], DollarSigns[i])
                /\ (i = 1 /\ j = 3) => match.result = 0

C14_Witness ==
    /\ match.status = "ok"
    /\ match.op = "calculate_price_match"
    /\ user_taste.price_tier = "budget"
    /\ match.venue.price_tier = "$$$"
    /\ match.result = 0
    /\ calculate_price_match("premium", "$") = 0
    /\ calculate_price_match("luxury", "$$$") = Unit \div 2

-----------------------------------------------------------------------------
(* Cuisine tracking of the aggregation engine *)

\* the cuisines the ingested transactions were constructed with
LoggedCuisines == {log[i].cuisine : i \in DOMAIN log} \ {NoneStr}

CuisineCountIn(cuisine) == Cardinality({i \in DOMAIN log : log[i].cuisine = cuisine})

(* C18: UserAnalysis tracks a count per cuisine and top_cuisines, at most
   5 cuisines in descending order of count; a transaction without a
   cuisine leaves both unchanged. *)
C18_CuisineTracking ==
    LoggedCuisines # {} =>
        /\ {"cuisines", "top_cuisines"} \subseteq DOMAIN analysis
        /\ DOMAIN analysis.cuisines = LoggedCuisines
        /\ \A c \in LoggedCuisines : analysis.cuisines[c] = CuisineCountIn(c)
        /\ Len(analysis.top_cuisines) = Min2(Cardinality(LoggedCuisines), 5)
        /\ Range(analysis.top_cuisines) \subseteq LoggedCuisines
        /\ \A i \in 1..(Len(analysis.top_cuisines) - 1) :
              CuisineCountIn(analysis.top_cuisines[i])
                  >= CuisineCountIn(analysis.top_cuisines[i + 1])

-----------------------------------------------------------------------------
(* The top merchants list under more merchants than it has room for *)

TopMerchants == {<<"m1", "Cafe">>, <<"m2", "Bar">>, <<"m3", "Deli">>, <<"m4", "Grill">>}

TopTxns ==
    {Txn("coffee", m, 5, 1, "morning", "weekday", NoneStr) : m \in TopMerchants}

InitTop ==
    /\ analysis = UserAnalysis
    /\ top_merchants_limit \in 1..MaxTopLimit
    /\ log = <<>>
    /\ prevAnalysis = UserAnalysis
    /\ InitIdle

IngestTop ==
    /\ analysis.total_transactions < MaxTopTxns
    /\ \E txn \in TopTxns : DoIngest(txn)

NextTop == IngestTop

SpecTop == InitTop /\ [][NextTop]_vars

(* C20: when top_merchants is full, whatever the limit and however many
   entries are tied at the minimum, and an ingested merchant that is not in
   the list reaches a count above the list's minimum, exactly one entry,
   one with the minimum count, is replaced: the list still has limit
   entries and every other previous entry is still present; when the new
   count does not exceed the minimum the list is unchanged. *)
C20_ReplacesExactlyOne ==
    LET old == prevAnalysis.top_merchants
        new == analysis.top_merchants
        key == MerchantKey(LastTxn)
    IN  (log # <<>> /\ Truthy(key) /\ Len(old) = top_merchants_limit
         /\ key \notin TopIds(prevAnalysis)) =>
            IF analysis.merchant_visits[key] > MinCount(old)
            THEN /\ Len(new) = top_merchants_limit
                 /\ \E i \in DOMAIN old :
                       /\ old[i].count = MinCount(old)
                       /\ Range(new) = (Range(old) \ {old[i]})
                                       \cup {TopEntry(key, LastTxn.merchant_name,
                                                      analysis.merchant_visits[key])}
            ELSE new = old

-----------------------------------------------------------------------------
(* routers/sessions.py.  A handler is a function of the tables and of its
   request; it yields the HTTP status code, the response body and the tables
   it leaves.  A handler runs from its first query to its return before the
   next request is served. *)

MaxSessions == 1
MaxInvitations == 2
MaxInvitees == 2

SessionUsers == {"u1", "u2", "u3"}
InviteeIds == SessionUsers \cup {"not-a-uuid"}
PhoneNumbers == {"+15550100"}
VoteVenues == {"va", "vb"}
InvitationActions == {"accept", "decline", "maybe"}

\* the invite_code the sessions table gives a new row, by session id
InviteCodes == <<"AB12CD", "EF34GH", "JK56LM", "NP78QR">>

JoinCodes == {"ab12cd", "AB12CD", "EF34GH", "zz99zz"}

\* str.upper() on the codes a join request carries
upper(code) ==
    CASE code = "ab12cd" -> "AB12CD"
      [] code = "zz99zz" -> "ZZ99ZZ"
      [] OTHER -> code

\* UUID(invitee_id) returns
IsUUID(invitee_id) == invitee_id \in SessionUsers

Tables ==
    [sessions |-> dbSessions, participants |-> dbParticipants,
     invitations |-> dbInvitations, votes |-> dbVotes]

HTTPException(status_code, db) ==
    [status_code |-> status_code, body |-> "detail", db |-> db]

Returned(body, db) == [status_code |-> 200, body |-> body, db |-> db]

SessionRow(host_id, invite_code) ==
    [host_id |-> host_id, status |-> "voting", invite_code |-> invite_code,
     winning_venue_id |-> NoneStr]

ParticipantRow(session_id, user_id, role) ==
    [session_id |-> session_id, user_id |-> user_id, role |-> role]

InvitationRow(session_id, inviter_id, invitee_id, invitee_phone) ==
    [session_id |-> session_id, inviter_id |-> inviter_id,
     invitee_id |-> invitee_id, invitee_phone |-> invitee_phone,
     status |-> "pending"]

\* insert into a table with a serial id
Insert(table, row) == table @@ ((Cardinality(DOMAIN table) + 1) :> row)

\* session_participants rows with this session_id and user_id
ParticipantRows(db, session_id, user_id) ==
    {row \in DOMAIN db.participants :
        row.session_id = session_id /\ row.user_id = user_id}

\* create_session; the sessions table adds the host as participant on insert
create_session(db, user_id) ==
    LET id == Cardinality(DOMAIN db.sessions) + 1
    IN  Returned("session",
            [db EXCEPT !.sessions = @ @@ (id :> SessionRow(user_id, InviteCodes[id])),
                       !.participants =
                           @ (+) SetToBag({ParticipantRow(id, user_id, "host")})])

join_session(db, code, user_id) ==
    LET found == {id \in DOMAIN db.sessions :
                     db.sessions[id].invite_code = upper(code)}
    IN  IF found = {} THEN HTTPException(404, db)
        ELSE
        LET id == CHOOSE id \in found : TRUE
            old == db.invitations
        IN  IF db.sessions[id].status # "voting" THEN HTTPException(400, db)
            ELSE Returned("session",
                [db EXCEPT
                    !.participants =
                        IF ParticipantRows(db, id, user_id) = {}
                        THEN @ (+) SetToBag({ParticipantRow(id, user_id, "participant")})
                        ELSE @,
                    !.invitations =
                        [i \in DOMAIN old |->
                            IF /\ old[i].session_id = id
                               /\ old[i].invitee_id = user_id
                               /\ old[i].status = "pending"
                            THEN [old[i] EXCEPT !.status = "accepted"]
                            ELSE old[i]]])

vote_for_venue(db, session_id, venue_id, user_id) ==
    IF session_id \notin DOMAIN db.sessions THEN HTTPException(404, db)
    ELSE IF db.sessions[session_id].status # "voting" THEN HTTPException(400, db)
    ELSE IF ParticipantRows(db, session_id, user_id) = {} THEN HTTPException(403, db)
    ELSE Returned("session",
            [db EXCEPT !.votes =
                [key \in DOMAIN @ \cup {<<session_id, user_id>>} |->
                    IF key = <<session_id, user_id>> THEN venue_id ELSE @[key]]])

\* vote_counts of close_voting
VoteCount(db, session_id, venue_id) ==
    Cardinality({key \in DOMAIN db.votes :
                    key[1] = session_id /\ db.votes[key] = venue_id})

\* max(vote_counts, key=vote_counts.get) takes the first venue with the most
\* votes in the order the unordered select returned the rows
Winners(db, session_id) ==
    LET voted == {db.votes[key] : key \in {k \in DOMAIN db.votes : k[1] = session_id}}
    IN  IF voted = {} THEN {NoneStr}
        ELSE {venue \in voted :
                \A other \in voted :
                    VoteCount(db, session_id, other) <= VoteCount(db, session_id, venue)}

close_voting(db, session_id, user_id, winner_id) ==
    IF session_id \notin DOMAIN db.sessions THEN HTTPException(404, db)
    ELSE IF db.sessions[session_id].host_id # user_id THEN HTTPException(403, db)
    ELSE IF db.sessions[session_id].status # "voting" THEN HTTPException(400, db)
    ELSE Returned("session",
            [db EXCEPT !.sessions[session_id].status = "confirmed",
                       !.sessions[session_id].winning_venue_id = winner_id])

remove_participant(db, session_id, participant_user_id, user_id) ==
    IF session_id \notin DOMAIN db.sessions THEN HTTPException(404, db)
    ELSE IF db.sessions[session_id].host_id # user_id THEN HTTPException(403, db)
    ELSE IF db.sessions[session_id].status # "voting" THEN HTTPException(400, db)
    ELSE IF participant_user_id = user_id THEN HTTPException(400, db)
    ELSE Returned("session",
            [db EXCEPT
                !.participants =
                    [row \in DOMAIN @ \ ParticipantRows(db, session_id, participant_user_id)
                        |-> @[row]],
                !.votes =
                    [key \in DOMAIN @ \ {<<session_id, participant_user_id>>} |-> @[key]]])

\* the loop of send_invitations over request.user_ids
RECURSIVE InviteUsers(_, _, _, _, _)
InviteUsers(sending, db, session_id, user_id, user_ids) ==
    IF user_ids = <<>> THEN sending
    ELSE
    LET invitee_id == Head(user_ids)
        invited == {i \in DOMAIN sending.invitations :
                       /\ sending.invitations[i].session_id = session_id
                       /\ sending.invitations[i].invitee_id = invitee_id}
        next == IF ~IsUUID(invitee_id)
                THEN [sending EXCEPT !.failed = @ + 1]
                ELSE IF ParticipantRows(db, session_id, invitee_id) # {}
                THEN sending
                ELSE IF invited # {}
                THEN sending
                ELSE [sending EXCEPT
                        !.invitations =
                            Insert(@, InvitationRow(session_id, user_id, invitee_id, NoneStr)),
                        !.sent = @ + 1]
    IN  InviteUsers(next, db, session_id, user_id, Tail(user_ids))

\* the loop of send_invitations over request.phone_numbers
RECURSIVE InvitePhones(_, _, _, _)
InvitePhones(sending, session_id, user_id, phone_numbers) ==
    IF phone_numbers = <<>> THEN sending
    ELSE
    LET phone == Head(phone_numbers)
        invited == {i \in DOMAIN sending.invitations :
                       /\ sending.invitations[i].session_id = session_id
                       /\ sending.invitations[i].invitee_phone = phone}
        next == IF invited # {}
                THEN sending
                ELSE [sending EXCEPT
                        !.invitations =
                            Insert(@, InvitationRow(session_id, user_id, NoneStr, phone)),
                        !.sent = @ + 1]
    IN  InvitePhones(next, session_id, user_id, Tail(phone_numbers))

\* user_ids, phone_numbers: the request's lists, <<>> for None or []
send_invitations(db, session_id, user_ids, phone_numbers, user_id) ==
    IF session_id \notin DOMAIN db.sessions THEN HTTPException(404, db)
    ELSE IF db.sessions[session_id].status # "voting" THEN HTTPException(400, db)
    ELSE IF ParticipantRows(db, session_id, user_id) = {} THEN HTTPException(403, db)
    ELSE
    LET start == [invitations |-> db.invitations, sent |-> 0, failed |-> 0]
        users == InviteUsers(start, db, session_id, user_id, user_ids)
        sending == InvitePhones(users, session_id, user_id, phone_numbers)
    IN  Returned([sent |-> sending.sent, failed |-> sending.failed,
                  deep_link |-> IF phone_numbers # <<>>
                                THEN db.sessions[session_id].invite_code
                                ELSE NoneStr],
                 [db EXCEPT !.invitations = sending.invitations])

\* respond_to_invitation without the check that the invitation is pending
respond_to_invitation_AnswersAgain(db, invitation_id, action, user_id) ==
    IF action \notin {"accept", "decline"} THEN HTTPException(400, db)
    ELSE IF invitation_id \notin DOMAIN db.invitations THEN HTTPException(404, db)
    ELSE
    LET invitation == db.invitations[invitation_id]
    IN  IF invitation.invitee_id # user_id THEN HTTPException(403, db)
        ELSE IF action = "accept"
        THEN IF \/ invitation.session_id \notin DOMAIN db.sessions
                \/ db.sessions[invitation.session_id].status # "voting"
             THEN HTTPException(400, db)
             ELSE Returned("session",
                    [db EXCEPT
                        !.participants =
                            @ (+) SetToBag({ParticipantRow(invitation.session_id,
                                                           user_id, "participant")}),
                        !.invitations[invitation_id].status = "accepted"])
        ELSE Returned([success |-> TRUE],
                [db EXCEPT !.invitations[invitation_id].status = "declined"])

respond_to_invitation(db, invitation_id, action, user_id) ==
    IF action \notin {"accept", "decline"} THEN HTTPException(400, db)
    ELSE IF invitation_id \notin DOMAIN db.invitations THEN HTTPException(404, db)
    ELSE
    LET invitation == db.invitations[invitation_id]
    IN  IF invitation.invitee_id # user_id THEN HTTPException(403, db)
        ELSE IF invitation.status # "pending" THEN HTTPException(400, db)
        ELSE IF action = "accept"
        THEN IF \/ invitation.session_id \notin DOMAIN db.sessions
                \/ db.sessions[invitation.session_id].status # "voting"
             THEN HTTPException(400, db)
             ELSE Returned("session",
                    [db EXCEPT
                        !.participants =
                            @ (+) SetToBag({ParticipantRow(invitation.session_id,
                                                           user_id, "participant")}),
                        !.invitations[invitation_id].status = "accepted"])
        ELSE Returned([success |-> TRUE],
                [db EXCEPT !.invitations[invitation_id].status = "declined"])

\* how often each invitation has left the pending status, after one more request
Exits(old, new, exits) ==
    [i \in DOMAIN new |->
        (IF i \in DOMAIN exits THEN exits[i] ELSE 0)
        + (IF i \in DOMAIN old /\ old[i].status = "pending" /\ new[i].status # "pending"
           THEN 1 ELSE 0)]

\* the router serves one request
Serve(op, result, asked) ==
    /\ dbSessions' = result.db.sessions
    /\ dbParticipants' = result.db.participants
    /\ dbInvitations' = result.db.invitations
    /\ dbVotes' = result.db.votes
    /\ response' = IF asked = NoResult THEN NoResult
                    ELSE [status |-> "done", op |-> op,
                          status_code |-> result.status_code, body |-> result.body]
    /\ dbBefore' = asked
    /\ pendingExits' = Exits(dbInvitations, result.db.invitations, pendingExits)
    /\ inflight' = inflight
    /\ UNCHANGED <<tasteVars, matchVars>>

InitSessions ==
    /\ analysis = UserAnalysis
    /\ top_merchants_limit = DefaultTopMerchantsLimit
    /\ log = <<>>
    /\ prevAnalysis = UserAnalysis
    /\ InitIdle

CreateSession ==
    /\ Cardinality(DOMAIN dbSessions) < MaxSessions
    /\ \E user_id \in SessionUsers :
          Serve("create_session", create_session(Tables, user_id), NoResult)

JoinSession ==
    \E code \in JoinCodes, user_id \in SessionUsers :
        Serve("join_session", join_session(Tables, code, user_id), NoResult)

VoteForVenue ==
    \E session_id \in 1..MaxSessions, venue_id \in VoteVenues, user_id \in SessionUsers :
        Serve("vote_for_venue",
              vote_for_venue(Tables, session_id, venue_id, user_id), NoResult)

CloseVoting ==
    \E session_id \in 1..MaxSessions, user_id \in SessionUsers :
        \E winner_id \in IF session_id \in DOMAIN dbSessions
                         THEN Winners(Tables, session_id) ELSE {NoneStr} :
            Serve("close_voting",
                  close_voting(Tables, session_id, user_id, winner_id), NoResult)

RemoveParticipant ==
    \E session_id \in 1..MaxSessions, participant_user_id \in SessionUsers,
       user_id \in SessionUsers :
        Serve("remove_participant",
              remove_participant(Tables, session_id, participant_user_id, user_id),
              NoResult)

InviteLists ==
    {<<>>} \cup UNION {[1..n -> InviteeIds] : n \in 1..MaxInvitees}

PhoneLists == {<<>>} \cup {<<phone>> : phone \in PhoneNumbers}

SendInvitations ==
    \E session_id \in 1..MaxSessions, user_ids \in InviteLists,
       phone_numbers \in PhoneLists, user_id \in SessionUsers :
        /\ Cardinality(DOMAIN dbInvitations) + Len(user_ids) + Len(phone_numbers)
              <= MaxInvitations
        /\ Serve("send_invitations",
                 send_invitations(Tables, session_id, user_ids, phone_numbers, user_id),
                 NoResult)

RespondToInvitation ==
    \E invitation_id \in 1..MaxInvitations, action \in InvitationActions,
       user_id \in SessionUsers :
        Serve("respond_to_invitation",
              respond_to_invitation(Tables, invitation_id, action, user_id),
              [status |-> "asked", invitation_id |-> invitation_id,
               action |-> action, user_id |-> user_id, db |-> Tables])

\* the sessions and invitation endpoints that write participants or invitations
NextSessions ==
    \/ CreateSession
    \/ JoinSession
    \/ CloseVoting
    \/ RemoveParticipant
    \/ SendInvitations
    \/ RespondToInvitation

SpecSessions == InitSessions /\ [][NextSessions]_vars

\* the request of the last response is one the handler lets through
Answerable(asked) ==
    /\ asked.action \in {"accept", "decline"}
    /\ asked.invitation_id \in DOMAIN asked.db.invitations
    /\ asked.db.invitations[asked.invitation_id].invitee_id = asked.user_id
    /\ asked.db.invitations[asked.invitation_id].status = "pending"
    /\ asked.action = "accept" =>
          LET session_id == asked.db.invitations[asked.invitation_id].session_id
          IN  /\ session_id \in DOMAIN asked.db.sessions
              /\ asked.db.sessions[session_id].status = "voting"

(* C19: respond_to_invitation changes the tables only when the caller is the
   invitation's invitee, the invitation is pending and, for accept, the
   session is in voting status.  Any other call is rejected and leaves the
   invitations, the participants, the sessions and the votes as they were:
   with 403 when the caller is not the invitee of the invitation, with 400
   when the invitee answers an invitation that is no longer pending or
   accepts one of a session that is not voting (and with 400 for an action
   that is neither accept nor decline, 404 for an unknown invitation).  An
   accept that goes through adds one participant row for the caller with
   role participant and sets the invitation to accepted; a decline sets it
   to declined and adds no participant; no other row changes.  No invitation
   has left the pending status more than once. *)
C19_RespondToInvitation ==
    /\ \A i \in DOMAIN pendingExits : pendingExits[i] <= 1
    /\ \A i \in DOMAIN dbInvitations :
          pendingExits[i] = IF dbInvitations[i].status = "pending" THEN 0 ELSE 1
    /\ dbBefore.status = "asked" =>
          LET asked == dbBefore
              before == asked.db
              id == asked.invitation_id
          IN  IF Answerable(asked)
              THEN LET invitation == before.invitations[id]
                   IN  /\ response.status_code = 200
                       /\ dbSessions = before.sessions
                       /\ dbVotes = before.votes
                       /\ IF asked.action = "accept"
                          THEN /\ dbParticipants =
                                      before.participants
                                      (+) SetToBag({ParticipantRow(invitation.session_id,
                                                       asked.user_id, "participant")})
                               /\ dbInvitations =
                                      [before.invitations EXCEPT ![id].status = "accepted"]
                          ELSE /\ dbParticipants = before.participants
                               /\ dbInvitations =
                                      [before.invitations EXCEPT ![id].status = "declined"]
              ELSE /\ Tables = before
                   /\ response.status_code \in {400, 403, 404}
                   /\ (asked.action \in {"accept", "decline"}
                       /\ id \in DOMAIN before.invitations) =>
                          response.status_code =
                              IF before.invitations[id].invitee_id # asked.user_id
                              THEN 403 ELSE 400
                   /\ asked.action \notin {"accept", "decline"} =>
                          response.status_code = 400
                   /\ (asked.action \in {"accept", "decline"}
                       /\ id \notin DOMAIN before.invitations) =>
                          response.status_code = 404

\* the invitee of an accepted invitation, now a participant of its session,
\* answers it again and is refused with 400, while another invitation has
\* been declined
C19_Witness ==
    /\ dbBefore.status = "asked"
    /\ dbBefore.action \in {"accept", "decline"}
    /\ dbBefore.invitation_id \in DOMAIN dbInvitations
    /\ LET invitation == dbInvitations[dbBefore.invitation_id]
       IN  /\ invitation.invitee_id = dbBefore.user_id
           /\ invitation.status = "accepted"
           /\ ParticipantRows(Tables, invitation.session_id, dbBefore.user_id) # {}
    /\ response.status_code = 400
    /\ \E i \in DOMAIN dbInvitations : dbInvitations[i].status = "declined"

-----------------------------------------------------------------------------
(* Exploration counters of one in-memory UserAnalysis *)

\* the merchant key of the last transaction occurred earlier in its category
SeenBefore ==
    \E i \in 1..(Len(log) - 1) :
        /\ log[i].taste_category = LastCategory
        /\ MerchantKey(log[i]) = MerchantKey(LastTxn)

(* C21: in every sequence of ingests into one in-memory UserAnalysis that
   starts empty, a transaction with a merchant key adds one to
   exploration[c].total of its category c and adds one to
   exploration[c].unique iff that key was not ingested before in c; a
   transaction without a key and the other categories leave the counters as
   they were; so unique <= total, and unique is the number of distinct
   merchant keys in categories[c].merchants. *)
C21_ExplorationCounters ==
    /\ log # <<>> =>
          LET old == Get(prevAnalysis.exploration, LastCategory, ExplorationData)
          IN  /\ Truthy(MerchantKey(LastTxn)) =>
                    /\ analysis.exploration[LastCategory].total = old.total + 1
                    /\ analysis.exploration[LastCategory].unique =
                           old.unique + (IF SeenBefore THEN 0 ELSE 1)
              /\ ~Truthy(MerchantKey(LastTxn)) =>
                    analysis.exploration = prevAnalysis.exploration
              /\ \A c \in DOMAIN analysis.exploration \ {LastCategory} :
                    /\ c \in DOMAIN prevAnalysis.exploration
                    /\ analysis.exploration[c] = prevAnalysis.exploration[c]
    /\ \A c \in DOMAIN analysis.exploration :
          /\ analysis.exploration[c].unique <= analysis.exploration[c].total
          /\ analysis.exploration[c].unique
                 = Cardinality(analysis.categories[c].merchants)

\* a merchant returns to its category after a transaction of another
\* category: total 2, unique 1
C21_Witness ==
    /\ Len(log) = 3
    /\ Truthy(MerchantKey(LastTxn))
    /\ SeenBefore
    /\ analysis.exploration[LastCategory].total = 2
    /\ analysis.exploration[LastCategory].unique = 1
    /\ \E i \in DOMAIN log : log[i].taste_category # LastCategory

-----------------------------------------------------------------------------
(* The cuisine score of score on ranked cuisine lists *)

MaxSyncs == 2         \* sync results processed per behaviour
MaxInFlight == 2      \* requests served concurrently, database call by database call
MaxCuisines == 8      \* length of the longest ranked cuisine list

WorldCuisines ==
    <<"italian", "Thai", "mexican", "indian", "japanese", "korean", "french", "greek",
      "turkish", "peruvian">>

\* ranked lists as the quiz or the fused taste hold them
CuisineLists ==
    {<<>>, <<"thai">>, <<"Thai", "italian">>, <<"mexican", "Italian", "italian">>,
     SubSeq(WorldCuisines, 1, MaxCuisines)}

VenueCuisines == {"Italian", "thai", "french", "greek", "ethiopian", ""}

TxWeights == {0, 300, 700, 1000}

InitCuisine ==
    /\ \E taste \in UserTastes, tx \in CuisineLists, quiz \in CuisineLists,
          tx_weight \in TxWeights :
          /\ taste.categories = <<>>
          /\ taste.vibes = <<>>
          /\ user_taste = [taste EXCEPT !.top_cuisines = tx,
                                        !.cuisine_preferences = quiz,
                                        !.tx_weight = tx_weight]
    /\ \E venue \in Venues, cuisine \in VenueCuisines :
          /\ venue.id = "v1"
          /\ venues = <<[venue EXCEPT !.cuisine_type = cuisine]>>
    /\ match = NoResult
    /\ analysis = UserAnalysis
    /\ top_merchants_limit = DefaultTopMerchantsLimit
    /\ log = <<>>
    /\ prevAnalysis = UserAnalysis
    /\ declared = [vibe_preferences |-> <<>>]
    /\ max_tx_weight = DefaultMaxTxWeight
    /\ fused = NoResult
    /\ dbTransactions = EmptyDict
    /\ dbUserAnalysis = NoRow
    /\ recomputes = <<>>
    /\ dbPlaceVisits = {}
    /\ syncs = <<>>
    /\ InitSessionsIdle

NextCuisine == Score

SpecCuisine == InitCuisine /\ [][NextCuisine]_vars

\* max(1 - 0.15 * rank, 0) for the 0-based rank of the venue's cuisine in the
\* list, compared without case; 0 when absent
RankedScore(list, venue_cuisine) ==
    LET at == {i \in DOMAIN list : Lower(list[i]) = Lower(venue_cuisine)}
    IN  IF at = {} \/ venue_cuisine = "" THEN 0
        ELSE LET first == CHOOSE i \in at : \A j \in at : i <= j
             IN  Max2(100 * Unit - 15 * Unit * (first - 1), 0) \div 100

(* C22: for a dining venue the cuisine score that score reports is, for the
   0-based rank of the venue's cuisine in a list compared without case,
   max(1 - 0.15 * rank, 0) and 0 when the cuisine is absent or the list is
   empty: the quiz list's score when the observed list is empty, the
   observed list's score when the quiz list is empty, and
   tx_weight * observed + (1 - tx_weight) * quiz when both are non-empty. *)
C22_CuisineScore ==
    (match.status = "ok" /\ match.op = "score" /\ match.venue.cuisine_type # NoneStr) =>
        LET observed == RankedScore(user_taste.top_cuisines, match.venue.cuisine_type)
            quiz == RankedScore(user_taste.cuisine_preferences, match.venue.cuisine_type)
            cuisine == match.result.scores.cuisine
        IN  /\ user_taste.top_cuisines = <<>> => cuisine = quiz
            /\ (user_taste.top_cuisines # <<>> /\ user_taste.cuisine_preferences = <<>>) =>
                  cuisine = observed
            /\ (user_taste.top_cuisines # <<>> /\ user_taste.cuisine_preferences # <<>>) =>
                  Scale * cuisine = user_taste.tx_weight * observed
                                    + (Scale - user_taste.tx_weight) * quiz

\* the venue's cuisine is absent from the observed list and seventh in the
\* quiz list: 0.7 * 0.0 + 0.3 * 0.10
C22_Witness ==
    /\ match.status = "ok"
    /\ match.op = "score"
    /\ match.venue.cuisine_type = "french"
    /\ user_taste.tx_weight = 700
    /\ Len(user_taste.cuisine_preferences) = MaxCuisines
    /\ user_taste.top_cuisines = <<"thai">>
    /\ match.result.scores.cuisine = (30 * Unit) \div 1000

-----------------------------------------------------------------------------
(* calculate_category_affinity on spending profiles *)

\* the entries a profile may hold, in the order of its dict: each list gives
\* the choices for one category, <<>> for a category the user has no spend in
ProfileEntries ==
    <<{<<>>, <<Pct("Coffee", 0)>>, <<Pct("Coffee", 6)>>, <<Pct("coffee", 30)>>},
      {<<>>, <<Pct("Other", 0)>>, <<Pct("other", 63)>>},
      {<<>>, <<Pct("dining", 10)>>, <<Pct("Dining", 45)>>},
      {<<>>, <<Pct("Entertainment", 19)>>},
      {<<>>, <<Pct("Fast Food", 12)>>},
      {<<>>, <<Pct("groceries", 25)>>}>>

Profiles ==
    {a \o b \o c \o d \o e \o f :
        a \in ProfileEntries[1], b \in ProfileEntries[2], c \in ProfileEntries[3],
        d \in ProfileEntries[4], e \in ProfileEntries[5], f \in ProfileEntries[6]}

VenueClusters == {"coffee", "Dining", "nightlife", "bakery", "bookstore", "", NoneStr}

InitAffinity ==
    /\ \E taste \in UserTastes, profile \in Profiles :
          /\ taste.categories = <<>>
          /\ taste.vibes = <<>>
          /\ user_taste = [taste EXCEPT !.categories = profile]
    /\ \E venue \in Venues, cluster \in VenueClusters :
          /\ venue.id = "v6"
          /\ venues = <<[venue EXCEPT !.taste_cluster = cluster]>>
    /\ match = NoResult
    /\ analysis = UserAnalysis
    /\ top_merchants_limit = DefaultTopMerchantsLimit
    /\ log = <<>>
    /\ prevAnalysis = UserAnalysis
    /\ declared = [vibe_preferences |-> <<>>]
    /\ max_tx_weight = DefaultMaxTxWeight
    /\ fused = NoResult
    /\ dbTransactions = EmptyDict
    /\ dbUserAnalysis = NoRow
    /\ recomputes = <<>>
    /\ dbPlaceVisits = {}
    /\ syncs = <<>>
    /\ InitSessionsIdle

CategoryAffinity ==
    /\ match = NoResult
    /\ match' = Called("calculate_category_affinity", venues[1], NoneStr,
                       calculate_category_affinity(user_taste.categories,
                                                   venues[1].taste_cluster))
    /\ UNCHANGED <<user_taste, venues, tasteVars, sessionVars>>

NextAffinity == CategoryAffinity

SpecAffinity == InitAffinity /\ [][NextAffinity]_vars

\* the user categories that count for each venue cluster
MappedCategories ==
    [coffee |-> {"coffee"},
     dining |-> {"dining", "fast_food"},
     nightlife |-> {"nightlife", "entertainment"},
     bakery |-> {"dining", "fast_food", "coffee"}]

\* categories that no venue cluster counts
UnmappedCategories == {"other", "groceries", "travel", "shopping", "fitness"}

RECURSIVE MappedPercentage(_, _)
MappedPercentage(profile, mapped) ==
    IF profile = <<>> THEN 0
    ELSE (IF _normalize_category(Head(profile).name) \in mapped
          THEN Head(profile).percentage ELSE 0)
         + MappedPercentage(Tail(profile), mapped)

\* the profile with the percentage of every unmapped category set to pct
WithUnmapped(profile, pct) ==
    [i \in DOMAIN profile |->
        IF _normalize_category(profile[i].name) \in UnmappedCategories
        THEN [profile[i] EXCEPT !.percentage = pct]
        ELSE profile[i]]

(* C23: the category affinity of a venue is min(sum / 30, 1.0) of the user's
   percentages in the categories mapped to the venue's cluster, 0 for an
   unknown cluster or an empty profile; a profile that differs only in the
   percentage of "other" or of another unmapped category gets the same
   affinity for every cluster. *)
C23_CategoryAffinity ==
    (match.status = "ok" /\ match.op = "calculate_category_affinity") =>
        LET profile == user_taste.categories
            cluster == Lower(match.venue.taste_cluster)
        IN  /\ match.result =
                  IF profile = <<>> \/ cluster \notin DOMAIN MappedCategories THEN 0
                  ELSE Min2((Unit * MappedPercentage(profile, MappedCategories[cluster]))
                            \div 30, Unit)
            /\ \A pct \in {0, 1, 50, 100}, other \in VenueClusters :
                  calculate_category_affinity(WithUnmapped(profile, pct), other)
                      = calculate_category_affinity(profile, other)
            /\ \A pct \in {0, 1, 50, 100} :
                  calculate_category_affinity(WithUnmapped(profile, pct),
                                              match.venue.taste_cluster)
                      = match.result

\* a broad spender: 63 percent in "other" and 6 in coffee give a coffee venue
\* 6 / 30 = 0.2
C23_Witness ==
    /\ match.status = "ok"
    /\ match.op = "calculate_category_affinity"
    /\ match.venue.taste_cluster = "coffee"
    /\ \E i \in DOMAIN user_taste.categories :
          user_taste.categories[i] = Pct("other", 63)
    /\ \E i \in DOMAIN user_taste.categories :
          user_taste.categories[i] = Pct("Coffee", 6)
    /\ match.result = (2 * Unit) \div 10

-----------------------------------------------------------------------------
(* The two tables of category_mappings.py read in both directions *)

USER_TO_VENUE_CLUSTERS ==
    [coffee |-> <<"coffee">>,
     dining |-> <<"dining", "bakery">>,
     fast_food |-> <<"dining", "bakery">>,
     nightlife |-> <<"nightlife">>,
     entertainment |-> <<"nightlife", "dining">>,
     fitness |-> <<>>,
     shopping |-> <<>>,
     groceries |-> <<>>,
     travel |-> <<>>,
     other |-> <<>>,
     other_food |-> <<"dining", "bakery">>]

get_relevant_venue_clusters(user_category) ==
    Get(USER_TO_VENUE_CLUSTERS, _normalize_category(user_category), <<>>)

get_relevant_user_categories(venue_cluster) ==
    Get(VENUE_TO_USER_CATEGORIES, Lower(venue_cluster), <<>>)

UserCategories ==
    DOMAIN USER_TO_VENUE_CLUSTERS \cup {"Fast Food", "Other Food", "Coffee", "mystery"}

LookupClusters == {"coffee", "dining", "Dining", "nightlife", "Nightlife", "bakery", "bookstore"}

InitLookup ==
    /\ \E taste \in UserTastes, category \in UserCategories :
          /\ taste.categories = <<>>
          /\ taste.vibes = <<>>
          /\ user_taste = [taste EXCEPT !.categories = <<Pct(category, 100)>>]
    /\ \E venue \in Venues, cluster \in LookupClusters :
          /\ venue.id = "v6"
          /\ venues = <<[venue EXCEPT !.taste_cluster = cluster]>>
    /\ match = NoResult
    /\ analysis = UserAnalysis
    /\ top_merchants_limit = DefaultTopMerchantsLimit
    /\ log = <<>>
    /\ prevAnalysis = UserAnalysis
    /\ declared = [vibe_preferences |-> <<>>]
    /\ max_tx_weight = DefaultMaxTxWeight
    /\ fused = NoResult
    /\ dbTransactions = EmptyDict
    /\ dbUserAnalysis = NoRow
    /\ recomputes = <<>>
    /\ dbPlaceVisits = {}
    /\ syncs = <<>>
    /\ InitSessionsIdle

GetRelevantVenueClusters ==
    /\ match = NoResult
    /\ match' = Called("get_relevant_venue_clusters", venues[1], NoneStr,
                       get_relevant_venue_clusters(user_taste.categories[1].name))
    /\ UNCHANGED <<user_taste, venues, tasteVars, sessionVars>>

GetRelevantUserCategories ==
    /\ match = NoResult
    /\ match' = Called("get_relevant_user_categories", venues[1], NoneStr,
                       get_relevant_user_categories(venues[1].taste_cluster))
    /\ UNCHANGED <<user_taste, venues, tasteVars, sessionVars>>

NextLookup == GetRelevantVenueClusters \/ GetRelevantUserCategories

SpecLookup == InitLookup /\ [][NextLookup]_vars

(* C24: the category-to-cluster table is bidirectional: a venue cluster v is
   among the clusters listed for a user category u iff u is among the
   categories listed for v, whichever of the two tables is read. *)
C24_Bidirectional ==
    LET u == _normalize_category(user_taste.categories[1].name)
        v == Lower(venues[1].taste_cluster)
    IN  /\ (match.status = "ok" /\ match.op = "get_relevant_venue_clusters") =>
              (v \in Range(match.result)
                  <=> u \in Range(Get(VENUE_TO_USER_CATEGORIES, v, <<>>)))
        /\ (match.status = "ok" /\ match.op = "get_relevant_user_categories") =>
              (u \in Range(match.result)
                  <=> v \in Range(Get(USER_TO_VENUE_CLUSTERS, u, <<>>)))

\* ---------------------------------------------------------------------------
\* get_match_reasons: the reasons shown with a match
\* ---------------------------------------------------------------------------

\* a reason is the tuple of the parts of its text: the f-string
\* f"Matches your {cuisine} preference" is <<"Matches your", cuisine, "preference">>
\* the list get_match_reasons builds before it cuts it
MatchReasonsList(scores, venue) ==
    LET cluster == venue.taste_cluster
        best_for == Range(venue.best_for)
        standout == Range(venue.standout)
        cuisine == IF Get(scores, "cuisine", 0) > Unit \div 2 /\ Truthy(venue.cuisine_type)
                   THEN << <<"Matches your", venue.cuisine_type, "preference">> >>
                   ELSE <<>>
        category == IF Get(scores, "category", 0) > (4 * Unit) \div 10 /\ Truthy(cluster)
                    THEN << <<"You love", cluster, "spots">> >>
                    ELSE <<>>
        venue_fit == IF Get(scores, "venue_fit", 0) > (6 * Unit) \div 10
                     THEN IF cluster = "coffee" THEN << <<"Perfect for your vibe">> >>
                          ELSE IF cluster = "nightlife"
                               THEN << <<"Great for your social style">> >>
                               ELSE <<>>
                     ELSE <<>>
        price == IF Get(scores, "price", 0) = Unit
                 THEN << <<"Right in your price range">> >>
                 ELSE <<>>
        context == IF Get(scores, "context", 0) > (7 * Unit) \div 10
                   THEN IF "date_night" \in best_for THEN << <<"Perfect for date night">> >>
                        ELSE IF "solo_work" \in best_for THEN << <<"Great solo spot">> >>
                        ELSE IF "group_celebration" \in best_for
                             THEN << <<"Perfect for groups">> >>
                             ELSE <<>>
                   ELSE <<>>
        discovery == IF Get(scores, "discovery", 0) > Unit \div 2
                     THEN IF "hidden_gem" \in standout
                          THEN << <<"Hidden gem to discover">> >>
                          ELSE IF "local_favorite" \in standout
                               THEN << <<"Local favorite">> >>
                               ELSE <<>>
                     ELSE <<>>
    IN  cuisine \o category \o venue_fit \o price \o context \o discovery

get_match_reasons_NoCap(scores, venue) == MatchReasonsList(scores, venue)

get_match_reasons(scores, venue) ==
    LET reasons == MatchReasonsList(scores, venue)
    IN  SubSeq(reasons, 1, Min2(2, Len(reasons)))

ScoreKeys == {"cuisine", "category", "venue_fit", "price", "context", "discovery"}

\* per component, a score that does not pass its test and one that does
ScoreValues ==
    [cuisine   |-> {Unit \div 2, Unit},
     category  |-> {(4 * Unit) \div 10, Unit},
     venue_fit |-> {(6 * Unit) \div 10, Unit},
     price     |-> {(7 * Unit) \div 10, Unit},
     context   |-> {(7 * Unit) \div 10, Unit},
     discovery |-> {Unit \div 2, Unit}]

\* the scores maps: every component is absent, or has one of its values
ScoresMaps ==
    UNION {{s \in [keys -> UNION {ScoreValues[k] : k \in keys}] :
               \A k \in keys : s[k] \in ScoreValues[k]} : keys \in SUBSET ScoreKeys}

InitReasons ==
    /\ \E taste \in UserTastes :
          /\ taste.categories = <<>>
          /\ taste.vibes = <<>>
          /\ user_taste = taste
    /\ \E venue \in Venues : venues = <<venue>>
    /\ match = NoResult
    /\ analysis = UserAnalysis
    /\ top_merchants_limit = DefaultTopMerchantsLimit
    /\ log = <<>>
    /\ prevAnalysis = UserAnalysis
    /\ declared = [vibe_preferences |-> <<>>]
    /\ max_tx_weight = DefaultMaxTxWeight
    /\ fused = NoResult
    /\ dbTransactions = EmptyDict
    /\ dbUserAnalysis = NoRow
    /\ recomputes = <<>>
    /\ dbPlaceVisits = {}
    /\ syncs = <<>>
    /\ InitSessionsIdle

GetMatchReasons ==
    /\ match = NoResult
    /\ \E scores \in ScoresMaps :
          match' = Called("get_match_reasons", venues[1], NoneStr,
                          [scores |-> scores,
                           reasons |-> get_match_reasons(scores, venues[1])])
    /\ UNCHANGED <<user_taste, venues, tasteVars, sessionVars>>

NextReasons == GetMatchReasons

SpecReasons == InitReasons /\ [][NextReasons]_vars

ReasonOrder == <<"cuisine", "category", "venue_fit", "price", "context", "discovery">>

\* the reason of one kind fires: its score passes the test and the venue has
\* what the text of the reason needs
Fires(kind, scores, venue) ==
    LET value == Get(scores, kind, 0)
    IN  CASE kind = "cuisine" -> 2 * value > Unit /\ Truthy(venue.cuisine_type)
          [] kind = "category" -> 10 * value > 4 * Unit /\ Truthy(venue.taste_cluster)
          [] kind = "venue_fit" ->
                10 * value > 6 * Unit /\ venue.taste_cluster \in {"coffee", "nightlife"}
          [] kind = "price" -> value = Unit
          [] kind = "context" ->
                /\ 10 * value > 7 * Unit
                /\ Range(venue.best_for)
                       \cap {"date_night", "solo_work", "group_celebration"} # {}
          [] kind = "discovery" ->
                /\ 2 * value > Unit
                /\ Range(venue.standout) \cap {"hidden_gem", "local_favorite"} # {}

\* the kind a reason belongs to, read from the first part of its text
KindOf(reason) ==
    CASE reason[1] = "Matches your" -> "cuisine"
      [] reason[1] = "You love" -> "category"
      [] reason[1] \in {"Perfect for your vibe", "Great for your social style"} -> "venue_fit"
      [] reason[1] = "Right in your price range" -> "price"
      [] reason[1] \in {"Perfect for date night", "Great solo spot", "Perfect for groups"} ->
            "context"
      [] reason[1] \in {"Hidden gem to discover", "Local favorite"} -> "discovery"

FiredKinds(scores, venue) == SelectSeq(ReasonOrder, LAMBDA kind : Fires(kind, scores, venue))

\* C25: get_match_reasons returns at most two reasons, and they are the
\* reasons of the first two kinds that fire in the order cuisine, category,
\* venue fit, price, context, discovery; the result is a function of the
\* scores map and the venue alone.
C25_MatchReasons ==
    (match.status = "ok" /\ match.op = "get_match_reasons") =>
        LET reasons == match.result.reasons
            fired == FiredKinds(match.result.scores, match.venue)
        IN  /\ Len(reasons) <= 2
            /\ Len(reasons) = Min2(2, Len(fired))
            /\ \A i \in DOMAIN reasons : KindOf(reasons[i]) = fired[i]
            /\ reasons = get_match_reasons(match.result.scores, match.venue)

\* a coffee shop whose six scores all pass: five kinds fire (the cuisine score
\* passes but the venue has no cuisine), the first two are reported
C25_Witness ==
    /\ match.status = "ok"
    /\ match.op = "get_match_reasons"
    /\ match.venue.taste_cluster = "coffee"
    /\ DOMAIN match.result.scores = ScoreKeys
    /\ \A k \in ScoreKeys : match.result.scores[k] = Unit
    /\ Len(FiredKinds(match.result.scores, match.venue)) = 5
    /\ match.result.reasons = << <<"You love", "coffee", "spots">>, <<"Perfect for your vibe">> >>

\* ---------------------------------------------------------------------------
\* Streaks as runs of consecutive calendar days
\* ---------------------------------------------------------------------------

\* the calendar days on which category c has a transaction in the log
DaysOf(c) == {DateOf(log[i].timestamp) : i \in {j \in DOMAIN log : log[j].taste_category = c}}

\* the transactions of category c came in non-decreasing date order
InDateOrder(c) ==
    \A i, j \in DOMAIN log :
        (i < j /\ log[i].taste_category = c /\ log[j].taste_category = c) =>
            DateOf(log[i].timestamp) <= DateOf(log[j].timestamp)

\* the length of the run of consecutive days of `days` that ends at `day`
RunEndingAt(days, day) ==
    CHOOSE n \in 1..Cardinality(days) :
        /\ \A k \in 0..(n - 1) : day - k \in days
        /\ day - n \notin days

MaxOf(set) == CHOOSE m \in set : \A x \in set : x <= m

(* C26: when the transactions of a category are ingested in non-decreasing
   date order, after every ingest the category's current streak is the length
   of the run of consecutive calendar days ending at its most recent date, and
   its longest streak is the length of the longest run of consecutive calendar
   days among all its dates ingested so far. *)
C26_StreakRuns ==
    \A c \in Categories :
        (DaysOf(c) # {} /\ InDateOrder(c)) =>
            /\ analysis.streaks[c].last_date = MaxOf(DaysOf(c))
            /\ analysis.streaks[c].current = RunEndingAt(DaysOf(c), MaxOf(DaysOf(c)))
            /\ analysis.streaks[c].longest =
                   MaxOf({RunEndingAt(DaysOf(c), d) : d \in DaysOf(c)})

\* two consecutive days and then a gap, in date order: the run that ends at
\* the most recent day is shorter than the longest run
C26_Witness ==
    /\ Len(log) = MaxStreakTxns
    /\ InDateOrder("coffee")
    /\ Cardinality(DaysOf("coffee")) = MaxStreakTxns
    /\ MaxOf(DaysOf("coffee")) - 1 \notin DaysOf("coffee")
    /\ RunEndingAt(DaysOf("coffee"), MaxOf(DaysOf("coffee")) - 2) = 2
    /\ analysis.streaks["coffee"].current = 1
    /\ analysis.streaks["coffee"].longest = 2

\* ---------------------------------------------------------------------------
\* UserAnalysis.from_dict: reloading a persisted aggregate
\* ---------------------------------------------------------------------------

from_dict(data) ==
    [categories |->
         [k \in DOMAIN data.categories |->
             [count |-> data.categories[k].count,
              total_spend |-> data.categories[k].total_spend,
              merchants |-> data.categories[k].merchants]],
     time_buckets |-> data.time_buckets,
     day_types |-> data.day_types,
     merchant_visits |-> data.merchant_visits,
     top_merchants |-> data.top_merchants,
     streaks |->
         [k \in DOMAIN data.streaks |->
             [current |-> data.streaks[k].current,
              longest |-> data.streaks[k].longest,
              last_date |-> data.streaks[k].last_date]],
     \* seen_merchants=set(): the set is not stored and nothing rebuilds it
     exploration |->
         [k \in DOMAIN data.exploration |->
             [unique |-> data.exploration[k].unique,
              total |-> data.exploration[k].total,
              seen_merchants |-> {}]],
     total_transactions |-> data.total_transactions,
     first_transaction_at |-> data.first_transaction_at,
     last_transaction_at |-> data.last_transaction_at,
     version |-> data.version]

\* the aggregate is persisted and loaded again between two ingests
Reload ==
    /\ analysis.total_transactions > 0
    /\ analysis' = from_dict(to_dict(analysis))
    /\ prevAnalysis' = analysis
    /\ UNCHANGED <<log, top_merchants_limit, declared, max_tx_weight, fused,
                   dbTransactions, dbUserAnalysis, recomputes,
                   dbPlaceVisits, syncs>>
    /\ UNCHANGED <<matchVars, sessionVars>>

NextReload == Ingest \/ Reload

SpecReload == InitIngest /\ [][NextReload]_vars

\* the fields of an aggregate that later results are read from
ResultFields(a) ==
    [categories |-> a.categories,
     merchant_visits |-> a.merchant_visits,
     top_merchants |-> a.top_merchants,
     streaks |-> a.streaks,
     total_transactions |-> a.total_transactions,
     exploration |-> [k \in DOMAIN a.exploration |-> ExplorationDict(a.exploration[k])]]

(* C27: persisting and reloading the aggregate between ingests does not
   change later results: an aggregate reached by ingests and reloads has the
   categories, merchant_visits, top_merchants, streaks, total_transactions
   and exploration counters of the aggregate that the same ingests reach
   without any reload; a merchant seen in a category before a reload is not
   counted in exploration.unique again. *)
C27_ReloadTransparent ==
    ResultFields(analysis) = ResultFields(IngestAll(log, top_merchants_limit))

\* ---------------------------------------------------------------------------
\* The order of the category list after the remainder adjustment
\* ---------------------------------------------------------------------------

(* C28: the category list returned by fuse is in non-increasing order of
   percentage for every observed aggregate, also when the rounding remainder
   has been added to or subtracted from the first bucket (three categories
   with counts 3, 3, 2 out of 8 transactions). *)
C28_SortedByPercentage ==
    fused.status = "ok" =>
        \A i \in 1..(Len(fused.categories) - 1) :
            fused.categories[i].percentage >= fused.categories[i + 1].percentage

\* ---------------------------------------------------------------------------
\* PlaidService.sync_transactions: added, modified and removed transactions
\* ---------------------------------------------------------------------------

\* the id the database gives the row stored for a plaid transaction; Plaid
\* never hands out the id of a removed transaction again
RowId(plaid_transaction_id) == <<"row", plaid_transaction_id>>

\* a sync result of the Plaid client: the added and modified transactions as
\* the rows _store_transactions builds from them, and the removed ids
SyncResults ==
    {[added |-> added, modified |-> modified, removed |-> removed] :
        added \in {rows \in SUBSET DbRows :
                      /\ Cardinality(rows) <= 2
                      /\ \A r1, r2 \in rows :
                            r1.plaid_transaction_id = r2.plaid_transaction_id => r1 = r2},
        modified \in {rows \in SUBSET DbRows : Cardinality(rows) <= 1},
        removed \in SUBSET TxnIds}

PlaidIds(rows) == {row.plaid_transaction_id : row \in rows}

\* the upsert of _store_transactions for a list of transactions
Stored(table, rows) ==
    [k \in DOMAIN table \cup PlaidIds(rows) |->
        IF k \in PlaidIds(rows)
        THEN CHOOSE row \in rows : row.plaid_transaction_id = k
        ELSE table[k]]

\* .delete().in_("plaid_transaction_id", removed_ids)
DeleteTransactions(table, removed_ids) ==
    [k \in DOMAIN table \ removed_ids |-> table[k]]

\* .select("id").in_("plaid_transaction_id", removed_ids): the rows found
SelectIds(table, removed_ids) ==
    {[id |-> RowId(k)] : k \in DOMAIN table \cap removed_ids}

\* place_visits .delete().in_("transaction_id", found)
DeletePlaceVisits(visits, found) ==
    IF found = {} THEN visits
    ELSE {visit \in visits : visit.transaction_id \notin found}

VisitCategories == {"coffee", "dining", "fast_food", "nightlife", "other_food"}

\* _create_place_visits: one visit for each food or drink transaction that
\* has none yet (the venue matched to a visit is not modelled)
_create_place_visits(table, visits) ==
    LET existing_tx_ids == {visit.transaction_id : visit \in visits}
        records ==
            {[transaction_id |-> RowId(k),
              merchant_name |-> Or(table[k].merchant_name, "Unknown"),
              amount |-> Abs(table[k].amount),
              visited_at |-> IF table[k].datetime # NoneInt THEN table[k].datetime
                             ELSE table[k].date,
              source |-> "transaction"] :
                k \in {k \in DOMAIN table :
                          /\ table[k].taste_category \in VisitCategories
                          /\ RowId(k) \notin existing_tx_ids
                          /\ (table[k].datetime # NoneInt \/ table[k].date # NoneInt)}}
    IN  visits \cup records

\* the transactions table after the store and delete steps of a sync
TransactionsAfterSync(table, result) ==
    LET stored == Stored(Stored(table, result.added), result.modified)
    IN  IF result.removed # {} THEN DeleteTransactions(stored, result.removed)
        ELSE stored

\* the place_visits table after a sync: the rows of the removed transactions
\* are looked up after the transactions have been deleted
PlaceVisitsAfterSync(table, visits, result) ==
    LET after == TransactionsAfterSync(table, result)
        kept == IF result.removed # {}
                THEN DeletePlaceVisits(visits, SelectIds(after, result.removed))
                ELSE visits
    IN  IF result.added # {} \/ result.modified # {}
        THEN _create_place_visits(after, kept)
        ELSE kept

\* PlaidService.sync_transactions for one sync result of the Plaid client
SyncTransactions ==
    /\ Len(syncs) < MaxSyncs
    /\ \E result \in SyncResults :
          LET everRemoved == UNION {syncs[i].removed : i \in DOMAIN syncs}
          IN  \* what Plaid reports: new ids are added, stored ids are modified or removed
              /\ PlaidIds(result.added) \cap (DOMAIN dbTransactions \cup everRemoved) = {}
              /\ PlaidIds(result.modified) \subseteq DOMAIN dbTransactions
              /\ result.removed \subseteq DOMAIN dbTransactions
              /\ PlaidIds(result.modified) \cap result.removed = {}
              /\ dbTransactions' = TransactionsAfterSync(dbTransactions, result)
              /\ dbPlaceVisits' = PlaceVisitsAfterSync(dbTransactions, dbPlaceVisits, result)
              /\ syncs' = Append(syncs, result)
              /\ IF result.added # {} \/ result.modified # {} \/ result.removed # {}
                 THEN AggregateOver(dbTransactions')
                 ELSE UNCHANGED <<analysis, log, prevAnalysis, dbUserAnalysis, recomputes>>
    /\ UNCHANGED <<top_merchants_limit, declared, max_tx_weight, fused>>
    /\ UNCHANGED <<matchVars, sessionVars>>

NextSync == SyncTransactions

SpecSync == InitRecompute /\ [][NextSync]_vars

LastSync == syncs[Len(syncs)]

(* C29: after sync_transactions has processed a sync result with a non-empty
   removed list, neither the removed transactions nor any place_visits row
   that referenced one of them remains stored. *)
C29_RemovedLeaveNoVisits ==
    (syncs # <<>> /\ LastSync.removed # {}) =>
        \A id \in LastSync.removed :
            /\ id \notin DOMAIN dbTransactions
            /\ \A visit \in dbPlaceVisits : visit.transaction_id # RowId(id)

\* ---------------------------------------------------------------------------
\* vote_for_venue and remove_participant, database call by database call
\* ---------------------------------------------------------------------------
(* Neither handler runs its database calls in a transaction: requests served
   by different workers interleave between any two calls. *)

VoteRequest(session_id, venue_id, user_id, pc) ==
    [op |-> "vote_for_venue", session_id |-> session_id, venue_id |-> venue_id,
     user_id |-> user_id, pc |-> pc]

RemoveRequest(session_id, participant_user_id, user_id, pc) ==
    [op |-> "remove_participant", session_id |-> session_id,
     participant_user_id |-> participant_user_id, user_id |-> user_id, pc |-> pc]

\* a step of a request that writes no table
Step(requests) ==
    /\ inflight' = requests
    /\ UNCHANGED <<dbSessions, dbParticipants, dbInvitations, dbVotes, response,
                   dbBefore, pendingExits>>
    /\ UNCHANGED <<tasteVars, matchVars>>

\* vote_for_venue: the select on sessions and its two checks
VoteSelectSession ==
    /\ Cardinality(inflight) < MaxInFlight
    /\ \E session_id \in 1..MaxSessions, venue_id \in VoteVenues, user_id \in SessionUsers :
          /\ session_id \in DOMAIN dbSessions
          /\ dbSessions[session_id].status = "voting"
          /\ Step(inflight \cup {VoteRequest(session_id, venue_id, user_id,
                                             "select_participant")})

\* vote_for_venue: the select on session_participants; 403 without a row
VoteSelectParticipant ==
    \E r \in inflight :
        /\ r.op = "vote_for_venue"
        /\ r.pc = "select_participant"
        /\ IF ParticipantRows(Tables, r.session_id, r.user_id) = {}
           THEN Step(inflight \ {r})
           ELSE Step((inflight \ {r}) \cup {[r EXCEPT !.pc = "upsert"]})

\* vote_for_venue: the upsert on session_votes, on_conflict session_id,user_id
VoteUpsert ==
    \E r \in inflight :
        /\ r.op = "vote_for_venue"
        /\ r.pc = "upsert"
        /\ dbVotes' = [key \in DOMAIN dbVotes \cup {<<r.session_id, r.user_id>>} |->
                          IF key = <<r.session_id, r.user_id>> THEN r.venue_id
                          ELSE dbVotes[key]]
        /\ inflight' = inflight \ {r}
        /\ UNCHANGED <<dbSessions, dbParticipants, dbInvitations, response,
                       dbBefore, pendingExits>>
        /\ UNCHANGED <<tasteVars, matchVars>>

\* remove_participant: the select on sessions and its four checks
RemoveSelectSession ==
    /\ Cardinality(inflight) < MaxInFlight
    /\ \E session_id \in 1..MaxSessions, participant_user_id \in SessionUsers,
          user_id \in SessionUsers :
          /\ session_id \in DOMAIN dbSessions
          /\ dbSessions[session_id].host_id = user_id
          /\ dbSessions[session_id].status = "voting"
          /\ participant_user_id # user_id
          /\ Step(inflight \cup {RemoveRequest(session_id, participant_user_id, user_id,
                                               "delete_participant")})

\* remove_participant: the delete on session_participants
RemoveDeleteParticipant ==
    \E r \in inflight :
        /\ r.op = "remove_participant"
        /\ r.pc = "delete_participant"
        /\ dbParticipants' =
               [row \in DOMAIN dbParticipants
                           \ ParticipantRows(Tables, r.session_id, r.participant_user_id)
                   |-> dbParticipants[row]]
        /\ inflight' = (inflight \ {r}) \cup {[r EXCEPT !.pc = "delete_votes"]}
        /\ UNCHANGED <<dbSessions, dbInvitations, dbVotes, response, dbBefore,
                       pendingExits>>
        /\ UNCHANGED <<tasteVars, matchVars>>

\* remove_participant: the delete on session_votes
RemoveDeleteVotes ==
    \E r \in inflight :
        /\ r.op = "remove_participant"
        /\ r.pc = "delete_votes"
        /\ dbVotes' = [key \in DOMAIN dbVotes \ {<<r.session_id, r.participant_user_id>>}
                          |-> dbVotes[key]]
        /\ inflight' = inflight \ {r}
        /\ UNCHANGED <<dbSessions, dbParticipants, dbInvitations, response,
                       dbBefore, pendingExits>>
        /\ UNCHANGED <<tasteVars, matchVars>>

NextVoting ==
    \/ CreateSession
    \/ JoinSession
    \/ VoteSelectSession
    \/ VoteSelectParticipant
    \/ VoteUpsert
    \/ RemoveSelectSession
    \/ RemoveDeleteParticipant
    \/ RemoveDeleteVotes

SpecVoting == InitSessions /\ [][NextVoting]_vars

(* C30: under any interleaving of vote_for_venue and remove_participant
   requests, in every state in which no request is in progress, every stored
   vote belongs to a user who is a participant of that session; each user has
   at most one vote per session, the table being keyed by session and user. *)
C30_VotesOfParticipants ==
    inflight = {} =>
        \A key \in DOMAIN dbVotes : ParticipantRows(Tables, key[1], key[2]) # {}

====
